---------------------------- MODULE Spec2Model ----------------------------
(***************************************************************************)
(* A model of QMigrate/core/model.py: the Grid3D geometry and coordinate   *)
(* transforms, and the LUT travel-time table built on it.                  *)
(*                                                                         *)
(* Conventions of the model.                                               *)
(*  - Real quantities (lengths, coordinates, velocities) are integers.     *)
(*    Cell sizes are drawn from even values, so that the half-cell offsets *)
(*    of the code (cell_size * (cell_count - 1) / 2, cell_size / 2) are    *)
(*    exact.                                                               *)
(*  - A fractional cell index is held doubled: loc2 = 2 * loc.             *)
(*  - Angles are counted in quarter turns (pi/2 radians); cos and sin of   *)
(*    an angle are then exact.  An angle that atan2 returns is held as the *)
(*    vector it is the angle of, plus the quarter turns added to it.       *)
(*  - None is the empty sequence <<>>, a value v that may be None is <<v>>.*)
(*  - Python objects that can be aliased (numpy arrays) live in heaps      *)
(*    (bufs, centres) and are referred to by identifier.                   *)
(***************************************************************************)
EXTENDS Integers, Sequences, FiniteSets, TLC

(***************************************************************************)
(* Bounds of the model.                                                    *)
(***************************************************************************)
MaxCells == 2
MaxStride == 2
MaxStations == 2
MaxCellSize == 4
MaxCount == 4
MaxOps == 4
MaxCoord == 16
MaxLongitude == 190

Axes == 1..3
None == <<>>
Some(v) == <<v>>
Val(o) == o[1]
\* Python truthiness of "None or a number": None and 0 are false.
Truthy(o) == o # None /\ Val(o) # 0
\* Python truthiness of "None or an object": only None is false.
IsSet(o) == o # None

Ones == <<1, 1, 1>>
Zeros == <<0, 0, 0>>
VAdd(a, b) == [i \in Axes |-> a[i] + b[i]]
VSub(a, b) == [i \in Axes |-> a[i] - b[i]]
VMul(a, b) == [i \in Axes |-> a[i] * b[i]]
Abs(x) == IF x < 0 THEN -x ELSE x
Min2(a, b) == IF a < b THEN a ELSE b
Max2(a, b) == IF a < b THEN b ELSE a
SetMin(S) == CHOOSE x \in S : \A y \in S : x <= y
SetMax(S) == CHOOSE x \in S : \A y \in S : y <= x

\* Python's and numpy's floor division of integers; numpy returns 0 (with a
\* warning) for an integer division by zero.
FloorDiv(a, b) ==
    IF b = 0 THEN 0
    ELSE IF b > 0 THEN a \div b
    ELSE (-a) \div (-b)

\* x / d for an x that is a multiple of d.
ExactDiv(x, d) == IF x >= 0 THEN x \div d ELSE -((-x) \div d)
ISqrt(n) == CHOOSE k \in 0..n : k * k = n

(***************************************************************************)
(* _cart2sph_np, _sph2cart_np.                                             *)
(* tpr = <<theta, phi, r>>: theta = atan2(y, x), phi = atan2(z, sqrt(xy)), *)
(* r = sqrt(xy + z^2).  theta is held as [dir, q]: the angle of the vector *)
(* dir plus q quarter turns (atan2(0, 0) = 0 is the angle of <<1, 0>>);    *)
(* phi as [rho2, z, q]: the angle of <<sqrt(rho2), z>> plus q quarter      *)
(* turns; r as its square.                                                 *)
(***************************************************************************)
Rot(v, q) ==
    CASE q % 4 = 0 -> <<v[1], v[2]>>
      [] q % 4 = 1 -> <<-v[2], v[1]>>
      [] q % 4 = 2 -> <<-v[1], -v[2]>>
      [] q % 4 = 3 -> <<v[2], -v[1]>>

Cart2Sph(xyz) ==
    LET xy == xyz[1] * xyz[1] + xyz[2] * xyz[2]
    IN  << [dir |-> IF xy = 0 THEN <<1, 0>> ELSE <<xyz[1], xyz[2]>>, q |-> 0],
           [rho2 |-> xy, z |-> xyz[3], q |-> 0],
           xy + xyz[3] * xyz[3] >>

\* tpr += [azimuth, dip, 0.0]
AddAngles(tpr, az, dp) ==
    << [tpr[1] EXCEPT !.q = @ + az], [tpr[2] EXCEPT !.q = @ + dp], tpr[3] >>

Sph2Cart(tpr) ==
    LET th   == tpr[1]
        ph   == tpr[2]
        c    == Rot(th.dir, th.q)       \* |dir| * (cos theta, sin theta)
        k    == ph.q % 4
        \* r * cos(phi) times (cos theta, sin theta)
        hor(ci) ==
            CASE k = 0 -> IF ph.rho2 = 0 THEN 0 ELSE ci
              [] k = 2 -> IF ph.rho2 = 0 THEN 0 ELSE -ci
              [] k = 1 -> IF ph.rho2 = 0 THEN -ph.z * ci
                          ELSE ExactDiv(-ph.z * ci, ISqrt(ph.rho2))
              [] k = 3 -> IF ph.rho2 = 0 THEN ph.z * ci
                          ELSE ExactDiv(ph.z * ci, ISqrt(ph.rho2))
        \* r * sin(phi)
        ver ==
            CASE k = 0 -> ph.z
              [] k = 2 -> -ph.z
              [] k = 1 -> ISqrt(ph.rho2)
              [] k = 3 -> -ISqrt(ph.rho2)
    IN  << hor(c[1]), hor(c[2]), ver >>

(***************************************************************************)
(* Grid3D geometry.  g is a record with the fields cell_count, cell_size,  *)
(* azimuth, dip and gc (the value of grid_centre).                         *)
(***************************************************************************)
HalfSize(g) == [i \in Axes |-> g.cell_size[i] \div 2]

\* Grid3D.local2global
Local2Global(g, value, inverse) ==
    LET tpr == Cart2Sph(VSub(value, g.gc))
        rot == IF inverse THEN AddAngles(tpr, -g.azimuth, -g.dip)
               ELSE AddAngles(tpr, g.azimuth, g.dip)
    IN  VAdd(Sph2Cart(rot), g.gc)

\* Grid3D.xyz2loc(value, inverse=True), value a doubled fractional index
Xyz2LocInv(g, loc2) ==
    Local2Global(g,
        [i \in Axes |->
            g.gc[i] + HalfSize(g)[i] * (loc2[i] - (g.cell_count[i] - 1))],
        FALSE)

\* Grid3D.xyz2loc(value, inverse=False), the result a doubled fractional index
Xyz2LocFwd(g, value) ==
    LET u == VSub(Local2Global(g, value, TRUE), g.gc)
    IN  [i \in Axes |->
            ExactDiv(u[i], HalfSize(g)[i]) + (g.cell_count[i] - 1)]

\* Grid3D.grid_corners: the positions of the eight corner cells
GridCorners(g) ==
    { Xyz2LocInv(g, <<2 * a, 2 * b, 2 * c>>) :
        a \in {0, g.cell_count[1] - 1},
        b \in {0, g.cell_count[2] - 1},
        c \in {0, g.cell_count[3] - 1} }

(***************************************************************************)
(* Projections.  pyproj is an external library: a projection handle is      *)
(* modelled as the planar offset (false easting, false northing) it adds   *)
(* to a geographic position, so that the forward and the inverse transform *)
(* differ and a transform taken in the wrong direction shows.              *)
(***************************************************************************)
WGS84 == [name |-> "WGS84", off |-> <<0, 0>>]
UTM   == [name |-> "UTM",   off |-> <<4, 8>>]
TM    == [name |-> "TM",    off |-> <<2, 0>>]

\* pyproj.transform(p1, p2, x, y)
Transform(p1, p2, xy) ==
    << xy[1] - p1.off[1] + p2.off[1], xy[2] - p1.off[2] + p2.off[2] >>

(***************************************************************************)
(* Grid3D.  An object o is a record of the attributes of the Python        *)
(* object; o.gc is the value of the array _grid_centre refers to and       *)
(* o.gcFresh tells that _grid_centre was rebound to a new array.           *)
(***************************************************************************)
\* Grid3D.cell_count (setter) with the test value >= 0
CellCountSetterNonNegative(value) ==
    LET v == IF Len(value) = 1 THEN <<value[1], value[1], value[1]>> ELSE value
    IN  IF Len(v) # 3 THEN [ok |-> FALSE, value |-> v]
        ELSE [ok |-> \A i \in Axes : v[i] >= 0, value |-> v]

\* Grid3D.cell_count (setter): [ok, value]; value is a sequence of integers
CellCountSetter(value) ==
    LET v == IF Len(value) = 1 THEN <<value[1], value[1], value[1]>> ELSE value
    IN  IF Len(v) # 3 THEN [ok |-> FALSE, value |-> v]
        ELSE [ok |-> \A i \in Axes : v[i] > 0, value |-> v]

\* Grid3D.cell_size (setter)
CellSizeSetter(value) ==
    LET v == IF Len(value) = 1 THEN <<value[1], value[1], value[1]>> ELSE value
    IN  IF Len(v) # 3 THEN [ok |-> FALSE, value |-> v]
        ELSE [ok |-> \A i \in Axes : v[i] > 0, value |-> v]

\* Grid3D.grid_centre (setter): rebinds _grid_centre to a new array
GridCentreSetter(o, value) == [o EXCEPT !.gc = value, !.gcFresh = TRUE]

\* Grid3D._update_grid_centre
UpdateGridCentre(o) ==
    LET xy == Transform(Val(o.coord_proj), Val(o.grid_proj),
                        <<Val(o.longitude), Val(o.latitude)>>)
    IN  GridCentreSetter(o, <<xy[1], xy[2], o.elevation>>)

\* Grid3D.longitude (setter)
LongitudeSetter(o, value) ==
    LET o1 == [o EXCEPT !.longitude = value]
    IN  IF IsSet(o1.grid_proj) /\ IsSet(o1.coord_proj) /\ Truthy(o1.latitude)
        THEN UpdateGridCentre(o1) ELSE o1

\* Grid3D.latitude (setter)
LatitudeSetter(o, value) ==
    LET o1 == [o EXCEPT !.latitude = value]
    IN  IF IsSet(o1.grid_proj) /\ IsSet(o1.coord_proj) /\ Truthy(o1.longitude)
        THEN UpdateGridCentre(o1) ELSE o1

\* Grid3D.elevation (setter)
ElevationSetter(o, value) ==
    LET o1 == [o EXCEPT !.elevation = value]
    IN  IF /\ IsSet(o1.grid_proj) /\ IsSet(o1.coord_proj)
           /\ Truthy(o1.longitude) /\ Truthy(o1.latitude)
        THEN UpdateGridCentre(o1) ELSE o1

\* Grid3D.grid_proj (setter)
GridProjSetter(o, value) ==
    LET o1 == [o EXCEPT !.grid_proj = value]
    IN  IF IsSet(o1.coord_proj) /\ Truthy(o1.longitude) /\ Truthy(o1.latitude)
        THEN UpdateGridCentre(o1) ELSE o1

\* Grid3D._update_coord_centre
UpdateCoordCentre(o) ==
    LET ll == Transform(Val(o.coord_proj), Val(o.grid_proj),
                        <<o.gc[1], o.gc[2]>>)
    IN  LatitudeSetter(LongitudeSetter(o, Some(ll[1])), Some(ll[2]))

\* Grid3D.coord_proj (setter)
CoordProjSetter(o, value) ==
    LET o1 == [o EXCEPT !.coord_proj = value]
    IN  IF IsSet(o1.grid_proj) /\ Truthy(o1.longitude) /\ Truthy(o1.latitude)
        THEN UpdateCoordCentre(o1) ELSE o1

\* Grid3D.lonlat_centre(longitude=None, latitude=None)
LonlatCentre(o, longitude, latitude) ==
    LET o1 == IF Truthy(longitude) THEN LongitudeSetter(o, longitude) ELSE o
    IN  IF Truthy(latitude) THEN LatitudeSetter(o1, latitude) ELSE o1

\* Grid3D.xy2lonlat(x, y, inverse)
Xy2LonLat(o, xy, inverse) ==
    IF inverse THEN Transform(Val(o.coord_proj), Val(o.grid_proj), xy)
    ELSE Transform(Val(o.grid_proj), Val(o.coord_proj), xy)

\* Whether Grid3D.__init__ returns: the two assignments succeed and the
\* arguments themselves have an element [2] for the elevation
Constructs(cell_count, cell_size) ==
    /\ CellCountSetter(cell_count).ok
    /\ CellSizeSetter(cell_size).ok
    /\ Len(cell_count) = 3 /\ Len(cell_size) = 3

\* Grid3D.__init__ followed by LUT.__init__, where it returns
NewLUT(cell_count, cell_size, azimuth, dip) ==
    [ cell_count   |-> CellCountSetter(cell_count).value,
      cell_size    |-> CellSizeSetter(cell_size).value,
      azimuth      |-> azimuth,
      dip          |-> dip,
      coord_proj   |-> None,
      grid_proj    |-> None,
      longitude    |-> None,
      latitude     |-> None,
      elevation    |-> -((cell_count[3] * cell_size[3]) \div 2),
      gc           |-> Zeros,
      gcFresh      |-> TRUE,
      centre       |-> None,
      station_data |-> None,
      maps         |-> <<>>,
      sort_order   |-> "C",
      lcc_standard_parallels |-> <<0, 0>>,
      NLLoc_n      |-> Zeros,
      NLLoc_org    |-> Zeros,
      NLLoc_siz    |-> Zeros,
      NLLoc_type   |-> "TIME",
      NLLoc_proj   |-> "NONE",
      NLLoc_MapOrg |-> <<0, 0, 0, "SIMPLE", 0, 0>>,
      NLLoc_data   |-> None ]

(***************************************************************************)
(* LUT.  A numpy array is a record [buf, off, shape]: a C-contiguous view  *)
(* of the buffer bufs[buf] that starts at the cell off of the buffer and   *)
(* has the shape <<nx, ny, nz, nstations>>.  A buffer is [shape, data],    *)
(* data a function of the 0-based index <<i, j, k, s>>.  A travel time is  *)
(* a pair <<a, b>>: sqrt(a) / b for b > 0, the output of an external       *)
(* collaborator for b < 0.                                                 *)
(***************************************************************************)
MapNames == {"TIME_P", "TIME_S"}
LutIds == {"orig", "copy"}
BufIds == 1..(Cardinality(MapNames) * Cardinality(LutIds))
CentreIds == 1..Cardinality(LutIds)
EmptyBuf == [shape |-> <<0, 0, 0, 0>>, data |-> <<>>]

Cells(shape) ==
    { <<i, j, k, s>> : i \in 0..(shape[1] - 1), j \in 0..(shape[2] - 1),
                       k \in 0..(shape[3] - 1), s \in 0..(shape[4] - 1) }

\* Where the element idx of the array a lies in its buffer.
BufIndex(a, idx) ==
    << a.off[1] + idx[1], a.off[2] + idx[2], a.off[3] + idx[3], idx[4] >>
ArrGet(heap, a, idx) == heap[a.buf].data[BufIndex(a, idx)]
ArrValues(heap, a) == [idx \in Cells(a.shape) |-> ArrGet(heap, a, idx)]

\* The buffers the maps of an object refer to.
MapRefs(o) == { o.maps[n].buf : n \in DOMAIN o.maps }
FirstFree(used) == SetMin(BufIds \ used)

\* LUT.stations(path, units): the rows of the file are <<c0, c1, c2, name>>
Stations(o, rows, units) ==
    LET lonlat(r) ==
            CASE units = "offset" ->
                    Xy2LonLat(o, <<r[1] + o.gc[1], r[2] + o.gc[2]>>, FALSE)
              [] units = "xyz" -> Xy2LonLat(o, <<r[1], r[2]>>, FALSE)
              [] units = "lon_lat_elev" -> <<r[1], r[2]>>
              [] units = "lat_lon_elev" -> <<r[2], r[1]>>
    IN  [o EXCEPT !.station_data =
            Some([i \in 1..Len(rows) |->
                    [ Longitude |-> lonlat(rows[i])[1],
                      Latitude  |-> lonlat(rows[i])[2],
                      Elevation |-> rows[i][3],
                      Name      |-> rows[i][4] ]])]

NumStations(o) == Len(Val(o.station_data))

\* LUT.station_xyz(): one <<x, y, elevation>> per station
StationXyz(o) ==
    LET stn == Val(o.station_data)
    IN  [i \in 1..Len(stn) |->
            LET xy == Xy2LonLat(o, <<stn[i].Longitude, stn[i].Latitude>>, TRUE)
            IN  <<xy[1], xy[2], stn[i].Elevation>>]

\* Grid3D.grid_xyz at the cell <<i, j, k>>
GridXyz(o, c) == Xyz2LocInv(o, <<2 * c[1], 2 * c[2], 2 * c[3]>>)

Dist2(p, q) ==
    (p[1] - q[1]) * (p[1] - q[1]) + (p[2] - q[2]) * (p[2] - q[2])
        + (p[3] - q[3]) * (p[3] - q[3])

\* Stores the two freshly allocated arrays pdata and sdata as the maps of o:
\* self.maps = {"TIME_P": p_map, "TIME_S": s_map}
StoreMaps(o, heap, keep, shape, pdata, sdata) ==
    LET b1 == FirstFree(keep)
        b2 == FirstFree(keep \cup {b1})
    IN  [ ok   |-> TRUE,
          o    |-> [o EXCEPT !.maps =
                      [n \in MapNames |->
                          [ buf   |-> IF n = "TIME_P" THEN b1 ELSE b2,
                            off   |-> Zeros,
                            shape |-> shape ]]],
          heap |-> [heap EXCEPT ![b1] = [shape |-> shape, data |-> pdata],
                                ![b2] = [shape |-> shape, data |-> sdata]] ]

Failed(o, heap) == [ok |-> FALSE, o |-> o, heap |-> heap]

\* compute_homogeneous_vmodel with the position of the first station taken
\* for every station
ComputeHomogeneousFirstStation(o, heap, keep, vp, vs) ==
    IF o.station_data = None THEN Failed(o, heap)
    ELSE
        LET rloc  == StationXyz(o)
            shape == <<o.cell_count[1], o.cell_count[2], o.cell_count[3],
                       Len(rloc)>>
            dist2(idx) == Dist2(GridXyz(o, idx), rloc[1])
        IN  StoreMaps(o, heap, keep, shape,
                      [idx \in Cells(shape) |-> <<dist2(idx), vp>>],
                      [idx \in Cells(shape) |-> <<dist2(idx), vs>>])

\* LUT.compute_homogeneous_vmodel(vp, vs)
ComputeHomogeneous(o, heap, keep, vp, vs) ==
    IF o.station_data = None THEN Failed(o, heap)
    ELSE
        LET rloc  == StationXyz(o)
            shape == <<o.cell_count[1], o.cell_count[2], o.cell_count[3],
                       Len(rloc)>>
            dist2(idx) == Dist2(GridXyz(o, idx), rloc[idx[4] + 1])
        IN  StoreMaps(o, heap, keep, shape,
                      [idx \in Cells(shape) |-> <<dist2(idx), vp>>],
                      [idx \in Cells(shape) |-> <<dist2(idx), vs>>])

\* eikonal: the cell the wave front starts from, the first cell in C order
\* that minimises |ix - Sx| + |iy - Sy| + |iz - Sz|
CIndex(cc, c) == (c[1] * cc[2] + c[2]) * cc[3] + c[3]
EikonalSeed(o, S) ==
    LET cc == o.cell_count
        cs == { <<i, j, k>> : i \in 0..(cc[1] - 1), j \in 0..(cc[2] - 1),
                              k \in 0..(cc[3] - 1) }
        d(c) == LET p == GridXyz(o, c)
                IN  Abs(p[1] - S[1]) + Abs(p[2] - S[2]) + Abs(p[3] - S[3])
    IN  CHOOSE c \in cs :
            \A e \in cs : d(c) < d(e) \/ (d(c) = d(e) /\ CIndex(cc, c) <= CIndex(cc, e))

\* eikonal: skfmm.travel_time is an external solver; its output at the cell c
\* for the seed cell and the velocity field of a phase is held as a code
Eikonal(o, phase, S, c) ==
    LET ncell == o.cell_count[1] * o.cell_count[2] * o.cell_count[3]
    IN  << CIndex(o.cell_count, EikonalSeed(o, S)) * ncell
               + CIndex(o.cell_count, c),
           -phase >>

\* LUT.compute_1d_vmodel(path)
Compute1D(o, heap, keep) ==
    IF o.station_data = None THEN Failed(o, heap)
    ELSE
        LET rloc  == StationXyz(o)
            shape == <<o.cell_count[1], o.cell_count[2], o.cell_count[3],
                       Len(rloc)>>
            cell(idx) == <<idx[1], idx[2], idx[3]>>
        IN  StoreMaps(o, heap, keep, shape,
                [idx \in Cells(shape) |->
                    Eikonal(o, 1, rloc[idx[4] + 1], cell(idx))],
                [idx \in Cells(shape) |->
                    Eikonal(o, 2, rloc[idx[4] + 1], cell(idx))])

\* LUT.compute_3d_nlloc_vmodel(path, regrid, decimate).  With regrid,
\* nlloc_regrid reads self.NLLoc_size, an attribute no code sets; without,
\* nlloc_project_grid builds a plain Grid3D and either calls its
\* nlloc_grid_centre, which reads the NLLoc_proj the Grid3D does not have, or
\* gives it the header's azimuth token, a string local2global cannot add: the
\* call raises before self.maps is assigned.
Compute3DNlloc(o, heap, keep, regrid) == Failed(o, heap)

(***************************************************************************)
(* LUT.decimate and LUT.decimate_array.                                    *)
(***************************************************************************)
\* cell_count = 1 + (self.cell_count - 1) // ds
\* cell_count = self.cell_count // ds
DecimateCountFloor(n, d) == FloorDiv(n, d)
\* cell_count = 1 + self.cell_count // ds
DecimateCountOffByOne(n, d) == 1 + FloorDiv(n, d)
DecimateCount(n, d) == 1 + FloorDiv(n - 1, d)
\* c1 = (self.cell_count - ds * (cell_count - 1) - 1) // 2
DecimateStart(n, d) == FloorDiv(n - d * (DecimateCount(n, d) - 1) - 1, 2)
\* the slice c1::d (d > 0) of an axis of length n: its first index (Python
\* counts a negative start from the end) and its length
SliceStart(n, c1) == IF c1 < 0 THEN Max2(0, n + c1) ELSE c1
SliceLen(n, c1, d) ==
    IF SliceStart(n, c1) >= n THEN 0
    ELSE (n - SliceStart(n, c1) + d - 1) \div d

\* Whether the view map_[c1[0]::ds[0], c1[1]::ds[1], c1[2]::ds[2], :] of shape
\* ns of an array over a buffer of shape base is C-contiguous, as numpy flags
\* it (the stride of an axis of length 1 does not count): such a view is what
\* np.ascontiguousarray returns, unchanged; any other view it copies.
SliceContiguous(ns, ds, base) ==
    \/ \E i \in 1..4 : ns[i] = 0
    \/ /\ ns[3] = 1 \/ ds[3] = 1
       /\ ns[2] = 1 \/ (ds[2] = 1 /\ ns[3] = base[3])
       /\ ns[1] = 1 \/ (ds[1] = 1 /\ ns[2] = base[2] /\ ns[3] = base[3])

\* np.ascontiguousarray(map_[c1[0]::ds[0], c1[1]::ds[1], c1[2]::ds[2], :]):
\* [a, heap], the array and the heap after it; target is the buffer a copy
\* is put in
SliceArray(heap, a, c1, ds, target) ==
    LET ns == << SliceLen(a.shape[1], c1[1], ds[1]),
                 SliceLen(a.shape[2], c1[2], ds[2]),
                 SliceLen(a.shape[3], c1[3], ds[3]), a.shape[4] >>
        st == [i \in Axes |-> SliceStart(a.shape[i], c1[i])]
    IN  IF SliceContiguous(ns, ds, heap[a.buf].shape)
        THEN [ a    |-> [buf |-> a.buf, off |-> VAdd(a.off, st), shape |-> ns],
               heap |-> heap ]
        ELSE [ a    |-> [buf |-> target, off |-> Zeros, shape |-> ns],
               heap |-> [heap EXCEPT ![target] =
                   [ shape |-> ns,
                     data  |-> [idx \in Cells(ns) |->
                         ArrGet(heap, a, << st[1] + ds[1] * idx[1],
                                            st[2] + ds[2] * idx[2],
                                            st[3] + ds[3] * idx[3],
                                            idx[4] >>)] ]] ]

\* The loop over maps.items() of LUT.decimate
SliceMaps(o, heap, keep, c1, ds) ==
    IF DOMAIN o.maps = {} THEN [o |-> o, heap |-> heap]
    ELSE
        LET tp == IF o.maps["TIME_P"].buf \notin keep THEN o.maps["TIME_P"].buf
                  ELSE FirstFree(keep \cup MapRefs(o))
            p  == SliceArray(heap, o.maps["TIME_P"], c1, ds, tp)
            ts == IF o.maps["TIME_S"].buf \notin keep THEN o.maps["TIME_S"].buf
                  ELSE FirstFree(keep \cup MapRefs(o) \cup {p.a.buf})
            s  == SliceArray(p.heap, o.maps["TIME_S"], c1, ds, ts)
        IN  [ o    |-> [o EXCEPT !.maps =
                          [n \in MapNames |->
                              IF n = "TIME_P" THEN p.a ELSE s.a]],
              heap |-> s.heap ]

\* The body of LUT.decimate after the copy: o is self (the object itself, or
\* its shallow copy), keep the buffers other objects refer to.
Decimate(o, heap, keep, ds) ==
    LET cell_count == [i \in Axes |-> DecimateCount(o.cell_count[i], ds[i])]
        c1 == [i \in Axes |-> DecimateStart(o.cell_count[i], ds[i])]
        cn == [i \in Axes |-> c1[i] + ds[i] * (cell_count[i] - 1) + 1]
        \* centre_cell = (c1 + cn - 1) / 2, doubled
        centre_cell2 == [i \in Axes |-> c1[i] + cn[i] - 1]
        centre == Xyz2LocInv(o, centre_cell2)
        count == CellCountSetter(cell_count)
        size == CellSizeSetter(VMul(o.cell_size, ds))
        o1 == [o EXCEPT !.cell_count = count.value]
        o2 == [o1 EXCEPT !.cell_size = size.value, !.centre = Some(centre)]
        m  == SliceMaps(o2, heap, keep, c1, ds)
    IN  IF ~count.ok THEN Failed(o, heap)
        ELSE IF ~size.ok THEN Failed(o1, heap)
        ELSE [ok |-> TRUE, o |-> m.o, heap |-> m.heap]

(***************************************************************************)
(* The state.                                                              *)
(*  lut     : the LUT objects, by name: "orig" is the constructed LUT,     *)
(*            "copy" the LUT the last decimate(ds, inplace=False) returned.*)
(*            lut[L].gc is the identifier of the array _grid_centre refers *)
(*            to, lut[L].maps[n] the array stored under the name n.        *)
(*  bufs    : the buffers of the map arrays, by identifier.                *)
(*  centres : the _grid_centre arrays, by identifier.                      *)
(*  last    : the last call: its name, the object, whether it returned     *)
(*            (ok) or raised, its vector argument and its flag.            *)
(*  ret     : what the last query returned.                                *)
(*  nops    : the number of calls made, where a specification counts them. *)
(***************************************************************************)
VARIABLES lut, bufs, centres, last, ret, nops

vars == <<lut, bufs, centres, last, ret, nops>>

Call(op, L, ok, arg, flag) ==
    [op |-> op, lut |-> L, ok |-> ok, arg |-> arg, flag |-> flag]

\* The object L with its grid_centre read through the reference.
Resolve(L) == [lut[L] EXCEPT !.gc = centres[@], !.gcFresh = FALSE]
Stored(o, id) == [o EXCEPT !.gc = id, !.gcFresh = FALSE]
\* The buffers and the centre arrays the objects other than L refer to.
KeepBufs(L) == UNION { MapRefs(lut[M]) : M \in DOMAIN lut \ {L} }
KeepCentres(L) == { lut[M].gc : M \in DOMAIN lut \ {L} }

\* What is no longer referred to is dropped.
Collect(newlut, heap) ==
    [b \in BufIds |->
        IF \E M \in DOMAIN newlut : b \in MapRefs(newlut[M])
        THEN heap[b] ELSE EmptyBuf]
CollectCentres(newlut, heap) ==
    [c \in CentreIds |->
        IF \E M \in DOMAIN newlut : newlut[M].gc = c THEN heap[c] ELSE Zeros]

\* The object L becomes o, with the buffers heap.
Commit(L, o, heap) ==
    LET id == IF o.gcFresh THEN SetMin(CentreIds \ KeepCentres(L))
              ELSE lut[L].gc
        nl == [M \in DOMAIN lut |-> IF M = L THEN Stored(o, id) ELSE lut[M]]
    IN  /\ lut' = nl
        /\ bufs' = Collect(nl, heap)
        /\ centres' = CollectCentres(nl, [centres EXCEPT ![id] = o.gc])

(***************************************************************************)
(* The inputs.                                                             *)
(***************************************************************************)
CellCounts == { <<a, b, c>> : a \in 1..MaxCells, b \in 1..MaxCells,
                              c \in 1..MaxCells }
MapCounts == { <<a, b, b>> : a \in 1..MaxCells, b \in 1..MaxCells }
UniformStrides == { <<d, d, d>> : d \in -1..MaxStride }
StationNames == <<"ST1", "ST2", "ST3", "ST4">>
StationRow(i) == <<2 * i, 4 - 2 * i, -2 * i, StationNames[i]>>
StationFile(n) == [i \in 1..n |-> StationRow(i)]
StationFiles == { StationFile(n) : n \in 1..MaxStations }
Velocities == {<<2, 1>>}
\* what a client stores into an element of an array it has been handed
Poke == <<0, 0>>
PokeCentre == 99
\* the argument of the last decimate, kept for the strides decimate accepts
RecordedStride(ds) == IF \A i \in Axes : ds[i] > 0 THEN ds ELSE <<>>

\* The LUT after LUT(cell_count, cell_size, azimuth, dip),
\* lonlat_centre(longitude, latitude) and projections("UTM").
SetUpLUT(cell_count, cell_size, azimuth, dip, longitude, latitude) ==
    GridProjSetter(
        CoordProjSetter(
            LonlatCentre(NewLUT(cell_count, cell_size, azimuth, dip),
                         Some(longitude), Some(latitude)),
            Some(WGS84)),
        Some(UTM))

EmptyHeap == [b \in BufIds |-> EmptyBuf]

\* The state in which the only object is o, with the buffers heap.
Holds(o, heap) ==
    /\ lut = [L \in {"orig"} |-> Stored(o, 1)]
    /\ centres = [c \in CentreIds |-> IF c = 1 THEN o.gc ELSE Zeros]
    /\ bufs = heap
    /\ last = Call("init", "orig", TRUE, <<>>, FALSE)
    /\ ret = <<>>
    /\ nops = 0

(***************************************************************************)
(* The operations of a LUT.                                                *)
(***************************************************************************)
DoStations(L, files, unitses) ==
    \E rows \in files, units \in unitses :
        /\ Commit(L, Stations(Resolve(L), rows, units), bufs)
        /\ last' = Call("stations", L, TRUE, <<>>, FALSE)
        /\ ret' = <<>>

DoComputeHomogeneous(L) ==
    \E v \in Velocities :
        LET r == ComputeHomogeneous(Resolve(L), bufs, KeepBufs(L), v[1], v[2])
        IN  /\ Commit(L, r.o, r.heap)
            /\ last' = Call("compute_homogeneous_vmodel", L, r.ok, v, FALSE)
            /\ ret' = <<>>

DoCompute1D(L) ==
    LET r == Compute1D(Resolve(L), bufs, KeepBufs(L))
    IN  /\ Commit(L, r.o, r.heap)
        /\ last' = Call("compute_1d_vmodel", L, r.ok, <<>>, FALSE)
        /\ ret' = <<>>

DoCompute3DNlloc(L) ==
    \E regrid \in BOOLEAN :
        LET r == Compute3DNlloc(Resolve(L), bufs, KeepBufs(L), regrid)
        IN  /\ Commit(L, r.o, r.heap)
            /\ last' = Call("compute_3d_nlloc_vmodel", L, r.ok, <<>>, regrid)
            /\ ret' = <<>>

\* LUT.decimate(ds, inplace=True)
DoDecimateInPlace(L, strides) ==
    \E ds \in strides :
        /\ \A i \in Axes : lut[L].cell_size[i] * ds[i] <= MaxCellSize
        /\ LET r == Decimate(Resolve(L), bufs, KeepBufs(L), ds)
           IN  /\ Commit(L, r.o, r.heap)
               /\ last' = Call("decimate", L, r.ok, RecordedStride(ds), TRUE)
               /\ ret' = <<>>

\* copy = orig.decimate(ds, inplace=False): self = copy(self) and
\* self.maps = copy(self.maps) give an object with the attributes of orig,
\* the arrays included, and a dict of its own
DoDecimateCopy(strides) ==
    \E ds \in strides :
        /\ \A i \in Axes : lut["orig"].cell_size[i] * ds[i] <= MaxCellSize
        /\ LET r  == Decimate(Resolve("orig"), bufs, MapRefs(lut["orig"]), ds)
               nl == [M \in LutIds |->
                         IF M = "orig" THEN lut["orig"]
                         ELSE Stored(r.o, lut["orig"].gc)]
           IN  /\ IF r.ok
                  THEN /\ lut' = nl
                       /\ bufs' = Collect(nl, r.heap)
                       /\ centres' = CollectCentres(nl, centres)
                  ELSE UNCHANGED <<lut, bufs, centres>>
               /\ last' = Call("decimate", "orig", r.ok, RecordedStride(ds),
                               FALSE)
               /\ ret' = <<>>

\* lut.maps[name][0, 0, 0, 0] = Poke, by a client: the maps property hands
\* out the store and, with it, the arrays
DoWriteMap(L) ==
    \E n \in DOMAIN lut[L].maps :
        LET a == lut[L].maps[n]
        IN  /\ <<0, 0, 0, 0>> \in Cells(a.shape)
            /\ bufs' = [bufs EXCEPT
                          ![a.buf].data[BufIndex(a, <<0, 0, 0, 0>>)] = Poke]
            /\ UNCHANGED <<lut, centres>>
            /\ last' = Call("maps[][]=", L, TRUE, <<>>, FALSE)
            /\ ret' = <<>>

\* lut.grid_centre[0] = PokeCentre, by a client: the grid_centre property
\* hands out the array
DoWriteCentre(L) ==
    /\ centres' = [centres EXCEPT ![lut[L].gc][1] = PokeCentre]
    /\ UNCHANGED <<lut, bufs>>
    /\ last' = Call("grid_centre[]=", L, TRUE, <<>>, FALSE)
    /\ ret' = <<>>

\* a call that is counted, and one that is not
Counted(A) == nops < MaxOps /\ A /\ nops' = nops + 1
Uncounted(A) == A /\ UNCHANGED nops

Init ==
    \E cc \in MapCounts :
        Holds(SetUpLUT(cc, <<2, 2, 2>>, 0, 0, 2, 6), EmptyHeap)

Next ==
    \/ \E L \in DOMAIN lut : Counted(DoStations(L, StationFiles, {"xyz", "lon_lat_elev"}))
    \/ \E L \in DOMAIN lut : Counted(DoComputeHomogeneous(L))
    \/ \E L \in DOMAIN lut : Counted(DoCompute1D(L))
    \/ \E L \in DOMAIN lut : Counted(DoCompute3DNlloc(L))
    \/ \E L \in DOMAIN lut : Counted(DoDecimateInPlace(L, UniformStrides))
    \/ Counted(DoDecimateCopy(UniformStrides))
    \/ \E L \in DOMAIN lut : Counted(DoWriteMap(L))
    \/ \E L \in DOMAIN lut : Counted(DoWriteCentre(L))

Spec == Init /\ [][Next]_vars

(***************************************************************************)
(* The assignments of cell_count and cell_size.                            *)
(***************************************************************************)
CountValues ==
    { <<a>> : a \in {-1, 0, 1, MaxCells} }
        \cup { <<1, MaxCells>>, <<MaxCells, MaxCells>> }
        \cup { <<a, b, b>> : a \in {-1, 0, 1, MaxCells}, b \in {1, MaxCells} }
        \cup { <<1, 0, 1>>, <<1, 1, -1>> }
SizeValues ==
    { <<a>> : a \in {-2, 0, 2, MaxCellSize} }
        \cup { <<2, MaxCellSize>>, <<MaxCellSize, MaxCellSize>> }
        \cup { <<a, b, b>> : a \in {-2, 0, 2, MaxCellSize},
                              b \in {2, MaxCellSize} }
        \cup { <<2, 0, 2>>, <<2, 2, -2>> }

\* lut.cell_count = value
DoSetCellCount(L) ==
    \E value \in CountValues :
        LET r == CellCountSetter(value)
        IN  /\ lut' = IF r.ok THEN [lut EXCEPT ![L].cell_count = r.value]
                      ELSE lut
            /\ UNCHANGED <<bufs, centres, ret>>
            /\ last' = Call("cell_count", L, r.ok, value, FALSE)

\* lut.cell_size = value
DoSetCellSize(L) ==
    \E value \in SizeValues :
        LET r == CellSizeSetter(value)
        IN  /\ lut' = IF r.ok THEN [lut EXCEPT ![L].cell_size = r.value]
                      ELSE lut
            /\ UNCHANGED <<bufs, centres, ret>>
            /\ last' = Call("cell_size", L, r.ok, value, FALSE)

\* orig = LUT(cell_count=value) and orig = LUT(cell_size=value): the name
\* keeps the object it had when the constructor raises
DoConstruct ==
    \E count \in BOOLEAN :
        \E value \in IF count THEN CountValues ELSE SizeValues :
            LET cc == IF count THEN value ELSE <<2, 2, 2>>
                cs == IF count THEN <<2, 2, 2>> ELSE value
                ok == Constructs(cc, cs)
            IN  /\ IF ok
                   THEN Commit("orig", NewLUT(cc, cs, 0, 0), bufs)
                   ELSE UNCHANGED <<lut, bufs, centres>>
                /\ UNCHANGED ret
                /\ last' = Call("LUT", "orig", ok, value, count)

InitSetters ==
    \E cc \in CellCounts : Holds(NewLUT(cc, <<2, 2, 2>>, 0, 0), EmptyHeap)

NextSetters ==
    \/ Uncounted(DoSetCellCount("orig"))
    \/ Uncounted(DoSetCellSize("orig"))
    \/ Uncounted(DoConstruct)
    \/ Uncounted(DoDecimateInPlace("orig", UniformStrides))

SpecSetters == InitSetters /\ [][NextSetters]_vars

\* C1, first part: in every state cell_count is a 3-vector of strictly
\* positive integers and cell_size a 3-vector of strictly positive numbers.
C1_Positive ==
    \A L \in DOMAIN lut :
        /\ Len(lut[L].cell_count) = 3 /\ Len(lut[L].cell_size) = 3
        /\ \A i \in Axes : /\ lut[L].cell_count[i] \in Nat \ {0}
                           /\ lut[L].cell_size[i] \in Nat \ {0}

\* C1, second part: an assignment (or a construction) whose value has a zero
\* or negative component, or has 2 elements, fails, and a failed one leaves
\* the stored cell_count and cell_size as they were.
C1_Rejects ==
    last'.op \in {"cell_count", "cell_size", "LUT"} =>
        /\ (Len(last'.arg) = 2 \/ \E i \in DOMAIN last'.arg : last'.arg[i] <= 0)
               => ~last'.ok
        /\ ~last'.ok => lut' = lut /\ centres' = centres /\ bufs' = bufs

\* C1: whatever cell_count and cell_size assignments are made, those inside
\* decimate included, cell_count and cell_size stay 3-vectors of strictly
\* positive numbers, and an assignment of a value with a zero or negative
\* component or with 2 elements fails and leaves the stored value in place.
C1_SettersKeepPositive == []C1_Positive /\ [][C1_Rejects]_vars

\* a cell_count with a negative component has been refused for a grid of one
\* cell whose cell size is no longer the constructed one
C1_Witness ==
    /\ last.op = "cell_count" /\ ~last.ok /\ last.arg = <<1, 1, -1>>
    /\ lut["orig"].cell_size = <<4, 4, 4>>
    /\ lut["orig"].cell_count = <<1, 1, 1>>

(***************************************************************************)
(* Decimation of the geometry: a LUT without maps.                         *)
(***************************************************************************)
ShapeCounts == { <<a, b, b>> : a \in 1..MaxCount, b \in 1..MaxCount }
ShapeStrides == { <<a, b, b>> : a \in -1..MaxStride, b \in -1..MaxStride }

InitShape ==
    \E cc \in ShapeCounts, az \in {0, 1} :
        Holds(SetUpLUT(cc, <<2, 2, 2>>, az, 0, 2, 6), EmptyHeap)

NextShape ==
    \/ Uncounted(DoDecimateInPlace("orig", ShapeStrides))
    \/ Uncounted(DoDecimateCopy(ShapeStrides))

SpecShape == InitShape /\ [][NextShape]_vars

\* The object a decimate call worked from and the object it produced.
After(L) == [lut'[L] EXCEPT !.gc = centres'[@], !.gcFresh = FALSE]
DecimateSource == Resolve(last'.lut)
DecimateTarget == IF last'.flag THEN After(last'.lut) ELSE After("copy")

\* The index vectors of a grid of cell_count cc.
Indices(cc) ==
    { <<a, b, c>> : a \in 0..(cc[1] - 1), b \in 0..(cc[2] - 1),
                    c \in 0..(cc[3] - 1) }

\* C5 as stated: after a decimate that returned, grid_centre of the
\* decimated LUT is the position of the centre of the retained samples, and
\* for every retained index j the position xyz2loc(j, inverse=True) of the
\* new geometry is the position the cell c1 + ds*j had in the old geometry.
C5_Step ==
    (last'.op = "decimate" /\ last'.ok) =>
        LET ds  == last'.arg
            src == DecimateSource
            dst == DecimateTarget
            c1  == [i \in Axes |-> DecimateStart(src.cell_count[i], ds[i])]
            mid == [i \in Axes |->
                       2 * c1[i] + ds[i] * (dst.cell_count[i] - 1)]
        IN  /\ dst.gc = Xyz2LocInv(src, mid)
            /\ \A j \in Indices(dst.cell_count) :
                   Xyz2LocInv(dst, [i \in Axes |-> 2 * j[i]])
                     = Xyz2LocInv(src,
                           [i \in Axes |-> 2 * (c1[i] + ds[i] * j[i])])

C5_CentreFollowsSamples == [][C5_Step]_vars

\* an in-place decimate has returned and the centre of the retained samples
\* it computed, kept in the attribute centre, is not grid_centre
C5_Witness ==
    /\ last.op = "decimate" /\ last.ok /\ last.flag
    /\ IsSet(lut["orig"].centre)
    /\ Val(lut["orig"].centre) # centres[lut["orig"].gc]

\* C6, the law: a decimate by a stride ds that is positive on every axis
\* returns, with cell_count = 1 + (n - 1) // ds and cell_size multiplied by
\* ds on every axis, n the cell_count before.
C6_Step ==
    (last'.op = "decimate" /\ last'.arg # <<>>) =>
        /\ last'.ok
        /\ \A i \in Axes :
              /\ DecimateTarget.cell_count[i]
                    = 1 + (DecimateSource.cell_count[i] - 1) \div last'.arg[i]
              /\ DecimateTarget.cell_size[i]
                    = DecimateSource.cell_size[i] * last'.arg[i]

\* C6, the example: a [51, 51, 31] grid of 30 m cells decimated by [2, 2, 1]
C6_Example ==
    LET r == Decimate(NewLUT(<<51, 51, 31>>, <<30, 30, 30>>, 0, 0),
                      EmptyHeap, {}, <<2, 2, 1>>)
    IN  /\ r.ok
        /\ r.o.cell_count = <<26, 26, 31>>
        /\ r.o.cell_size = <<60, 60, 30>>

\* C6: for every cell_count n and every positive stride ds, decimate yields
\* cell_count = 1 + (n - 1) // ds and cell_size * ds on every axis; a
\* [51, 51, 31] grid decimated by [2, 2, 1] becomes a [26, 26, 31] grid with
\* the cell size scaled by [2, 2, 1].
C6_ShapeLaw == [][C6_Step]_vars /\ []C6_Example

\* a copy of 2 x 2 x 2 cells of size 4 has been made of a grid of 3 x 4 x 4
\* cells of size 2
C6_Witness ==
    /\ last.op = "decimate" /\ last.ok /\ ~last.flag
    /\ last.arg = <<2, 2, 2>>
    /\ lut["orig"].cell_count = <<3, 4, 4>>
    /\ lut["copy"].cell_count = <<2, 2, 2>>
    /\ lut["copy"].cell_size = <<4, 4, 4>>

(***************************************************************************)
(* Decimation of a LUT with maps.                                          *)
(***************************************************************************)
MapStrides == UniformStrides \cup { <<d, 1, 1>> : d \in 1..MaxStride }

InitDecimate ==
    \E cc \in MapCounts :
        Holds(SetUpLUT(cc, <<2, 2, 2>>, 0, 0, 2, 6), EmptyHeap)

NextDecimate ==
    \/ Uncounted(DoStations("orig", {StationFile(MaxStations)}, {"xyz"}))
    \/ Uncounted(DoComputeHomogeneous("orig"))
    \/ Uncounted(DoDecimateInPlace("orig", MapStrides))
    \/ Uncounted(DoDecimateCopy(MapStrides))

SpecDecimate == InitDecimate /\ [][NextDecimate]_vars

\* The values of the maps of the object o, whose arrays are in heap.
MapValues(o, heap) == [n \in DOMAIN o.maps |-> ArrValues(heap, o.maps[n])]

\* C7: a decimate by [1, 1, 1], in place or not and however many calls went
\* before, returns and leaves cell_count, cell_size and every value of
\* every stored map as they were.
C7_Step ==
    (last'.op = "decimate" /\ last'.arg = Ones) =>
        /\ last'.ok
        /\ DecimateTarget.cell_count = DecimateSource.cell_count
        /\ DecimateTarget.cell_size = DecimateSource.cell_size
        /\ MapValues(DecimateTarget, bufs') = MapValues(DecimateSource, bufs)

C7_UnitStrideIsIdentity == [][C7_Step]_vars

\* a copy has been made by [1, 1, 1] of a LUT with maps that an earlier
\* decimate had reduced
C7_Witness ==
    /\ last.op = "decimate" /\ last.ok /\ ~last.flag /\ last.arg = Ones
    /\ lut["orig"].cell_size = <<4, 2, 2>>
    /\ lut["orig"].cell_count = <<1, 2, 2>>
    /\ DOMAIN lut["copy"].maps = MapNames

(***************************************************************************)
(* The maps of a LUT against its geometry and its stations, and the maps   *)
(* of a LUT against those of its copy.                                     *)
(***************************************************************************)
\* C2 as stated: every array of the map store has first three axes equal
\* to the current cell_count and last axis equal to the current number of
\* stations, in every state the LUT operations reach.
C2_MapsMatchGeometry ==
    \A L \in DOMAIN lut :
        \A n \in DOMAIN lut[L].maps :
            lut[L].maps[n].shape =
                << lut[L].cell_count[1], lut[L].cell_count[2],
                   lut[L].cell_count[3], NumStations(lut[L]) >>

\* stations has replaced the registry of a LUT whose maps were computed for
\* another number of stations
C2_Witness ==
    /\ last.op = "stations" /\ last.lut = "orig"
    /\ lut["orig"].maps # <<>>
    /\ lut["orig"].maps["TIME_P"].shape[4] # NumStations(lut["orig"])

\* What can be observed through the object o, whose arrays are in heap.
ViewOf(o, heap) ==
    [ cell_count   |-> o.cell_count,
      cell_size    |-> o.cell_size,
      grid_centre  |-> o.gc,
      station_data |-> o.station_data,
      maps         |-> MapValues(o, heap) ]

\* C4 as stated: decimate(ds, inplace=False) leaves everything observable
\* through the original as it was, and no later call on, or write through,
\* one of the two objects changes what is observable through the other.
C4_Step ==
    LET other == IF last'.lut = "orig" THEN "copy" ELSE "orig"
        creating == last'.op = "decimate" /\ ~last'.flag
    IN  /\ creating =>
               ViewOf(After("orig"), bufs') = ViewOf(Resolve("orig"), bufs)
        /\ (~creating /\ "copy" \in DOMAIN lut) =>
               ViewOf(After(other), bufs') = ViewOf(Resolve(other), bufs)

C4_CopySharesNothing == [][C4_Step]_vars

\* an element written into a map of the copy is read in the map of the
\* original
C4_Witness ==
    /\ "copy" \in DOMAIN lut
    /\ last.op = "maps[][]=" /\ last.lut = "copy"
    /\ \E n \in DOMAIN lut["orig"].maps :
           /\ <<0, 0, 0, 0>> \in Cells(lut["orig"].maps[n].shape)
           /\ ArrGet(bufs, lut["orig"].maps[n], <<0, 0, 0, 0>>) = Poke

(***************************************************************************)
(* The two views of the grid centre: grid_centre, and longitude, latitude  *)
(* and elevation.                                                          *)
(***************************************************************************)
Longitudes == {0, 2}
Latitudes == {0, 6}
Elevations == {-1, 0, 3}
GridCentres == { <<0, 0, 0>>, <<5, 5, 5>> }
GridProjs == {UTM, TM}
CoordProjs == {WGS84}

\* The coordinates stay within MaxCoord of the origin.
InRange(o) ==
    /\ \A i \in 1..2 : Abs(o.gc[i]) <= MaxCoord
    /\ IsSet(o.longitude) => Abs(Val(o.longitude)) <= MaxCoord
    /\ IsSet(o.latitude) => Abs(Val(o.latitude)) <= MaxCoord

\* The object orig becomes o by the call op with the argument arg.
Assign(op, arg, o) ==
    /\ InRange(o)
    /\ Commit("orig", o, bufs)
    /\ last' = Call(op, "orig", TRUE, arg, FALSE)
    /\ ret' = <<>>

DoSetLongitude ==
    \E v \in Longitudes :
        Assign("longitude", <<v>>, LongitudeSetter(Resolve("orig"), Some(v)))

DoSetLatitude ==
    \E v \in Latitudes :
        Assign("latitude", <<v>>, LatitudeSetter(Resolve("orig"), Some(v)))

DoSetElevation ==
    \E v \in Elevations :
        Assign("elevation", <<v>>, ElevationSetter(Resolve("orig"), v))

DoSetGridCentre ==
    \E v \in GridCentres :
        Assign("grid_centre", v, GridCentreSetter(Resolve("orig"), v))

DoSetGridProj ==
    \E p \in GridProjs :
        Assign("grid_proj", p.off, GridProjSetter(Resolve("orig"), Some(p)))

DoSetCoordProj ==
    \E p \in CoordProjs :
        Assign("coord_proj", p.off, CoordProjSetter(Resolve("orig"), Some(p)))

\* lonlat_centre(longitude, latitude), either argument left out or given
DoLonlatCentre ==
    \E lon \in {None} \cup { Some(v) : v \in Longitudes },
       lat \in {None} \cup { Some(v) : v \in Latitudes } :
        Assign("lonlat_centre", lon \o lat,
               LonlatCentre(Resolve("orig"), lon, lat))

InitCentre == Holds(NewLUT(<<2, 2, 2>>, <<2, 2, 2>>, 0, 0), EmptyHeap)

NextCentre ==
    \/ Uncounted(DoSetLongitude)
    \/ Uncounted(DoSetLatitude)
    \/ Uncounted(DoSetElevation)
    \/ Uncounted(DoSetGridCentre)
    \/ Uncounted(DoSetGridProj)
    \/ Uncounted(DoSetCoordProj)
    \/ Uncounted(DoLonlatCentre)

SpecCentre == InitCentre /\ [][NextCentre]_vars

\* C3 as stated: once grid_proj and coord_proj are both set and a longitude
\* and a latitude have been given, grid_centre[0:2] is the image of
\* (longitude, latitude) under the transform from coord_proj to grid_proj
\* and grid_centre[2] is elevation, whatever was assigned last.
C3_CentreViewsAgree ==
    LET o == Resolve("orig")
    IN  ( /\ IsSet(o.grid_proj) /\ IsSet(o.coord_proj)
          /\ IsSet(o.longitude) /\ IsSet(o.latitude) ) =>
            LET xy == Transform(Val(o.coord_proj), Val(o.grid_proj),
                                <<Val(o.longitude), Val(o.latitude)>>)
            IN  o.gc = <<xy[1], xy[2], o.elevation>>

\* with both projections set and the longitude 0, a latitude has been
\* assigned and grid_centre is not the image of (0, latitude)
C3_Witness ==
    LET o == Resolve("orig")
    IN  /\ last.op = "latitude" /\ last.arg = <<6>>
        /\ IsSet(o.grid_proj) /\ IsSet(o.coord_proj)
        /\ o.longitude = Some(0) /\ o.latitude = Some(6)
        /\ o.gc[2] # Transform(Val(o.coord_proj), Val(o.grid_proj),
                                <<0, 6>>)[2]

(***************************************************************************)
(* The queries: interpolate and xyz2coord.                                 *)
(* scipy's RegularGridInterpolator is an external library.  A value it     *)
(* interpolates is the combination terms, a set of <<node, weight>> with   *)
(* the weights in eighths, or the marker nan.  On an axis with one grid    *)
(* point the releases of the library differ: the earlier ones divide by    *)
(* the zero width of the interval and return nan, the later ones return    *)
(* the value at the point.                                                 *)
(***************************************************************************)
Builds == {"earlier", "later"}
Marker == [nan |-> TRUE, terms |-> {}]
Combination(terms) == [nan |-> FALSE, terms |-> terms]

\* The nodes and the doubled weights of one axis of n points 0..n-1 for the
\* doubled coordinate x2 within the axis: i = searchsorted(grid, x) - 1,
\* kept within 0..n-2, and the weights 1 - d for i and d for i + 1,
\* d = (x - grid[i]) / (grid[i + 1] - grid[i]).
AxisTerms(n, x2) ==
    IF n = 1 THEN { <<0, 2>> }
    ELSE LET i0 == ((x2 + 1) \div 2) - 1
             i  == Min2(Max2(i0, 0), n - 2)
             d2 == x2 - 2 * i
         IN  { t \in { <<i, 2 - d2>>, <<i + 1, d2>> } : t[2] > 0 }

\* LUT.interpolate(map_, loc), loc2 the doubled loc: [ok, value], value the
\* result for each station
Interpolate(o, heap, name, loc2, build) ==
    IF name \notin DOMAIN o.maps THEN [ok |-> FALSE, value |-> <<>>]
    ELSE
        LET a == o.maps[name]
            n == o.cell_count
            outside == \E i \in Axes : loc2[i] < 0 \/ loc2[i] > 2 * (n[i] - 1)
            terms == { << <<t1[1], t2[1], t3[1]>>, t1[2] * t2[2] * t3[2] >> :
                         t1 \in AxisTerms(n[1], loc2[1]),
                         t2 \in AxisTerms(n[2], loc2[2]),
                         t3 \in AxisTerms(n[3], loc2[3]) }
        IN  IF \E i \in Axes : a.shape[i] # n[i]
            THEN [ok |-> FALSE, value |-> <<>>]
            ELSE [ ok |-> TRUE,
                   value |-> [st \in 1..a.shape[4] |->
                       IF outside THEN Marker
                       ELSE IF build = "earlier" /\ \E i \in Axes : n[i] = 1
                            THEN Marker
                       ELSE Combination(terms)] ]

\* one coordinate of xyz2coord(value, inverse=True): the two tests in turn
ClampAxis(v, lo, hi, half) ==
    LET a == IF v < lo THEN lo + half ELSE v
    IN  IF a > hi THEN hi - half ELSE a

\* The smallest and the largest coordinate of the grid corners on axis i.
CornerMin(o, i) == SetMin({ c[i] : c \in GridCorners(o) })
CornerMax(o, i) == SetMax({ c[i] : c \in GridCorners(o) })

\* The planar position of value = <<longitude, latitude, z>>.
Planar(o, value) ==
    LET xy == Xy2LonLat(o, <<value[1], value[2]>>, TRUE)
    IN  <<xy[1], xy[2], value[3]>>

\* Grid3D.xyz2coord(value, inverse=True) for one point
Xyz2CoordInv(o, value) ==
    [i \in Axes |->
        ClampAxis(Planar(o, value)[i], CornerMin(o, i), CornerMax(o, i),
                  HalfSize(o)[i])]

QueryLocs ==
    { <<a, b, c>> : a \in -1..(2 * MaxCells - 1), b \in 0..1, c \in 0..1 }
QueryOffsets == { <<a, b, c>> : a \in {-3, 0, 1, 3}, b \in {-3, 0, 1, 3},
                                c \in {-3, 0, 1, 3} }

DoInterpolate ==
    \E name \in MapNames, loc2 \in QueryLocs, build \in Builds :
        LET r == Interpolate(Resolve("orig"), bufs, name, loc2, build)
        IN  /\ ret' = r.value
            /\ last' = Call("interpolate", "orig", r.ok, loc2, FALSE)
            /\ UNCHANGED <<lut, bufs, centres>>

\* xyz2coord([[longitude, latitude, z]], inverse=True), the point given by
\* its planar offset from grid_centre
DoXyz2Coord ==
    \E d \in QueryOffsets :
        LET o  == Resolve("orig")
            ll == Xy2LonLat(o, <<o.gc[1] + d[1], o.gc[2] + d[2]>>, FALSE)
            value == <<ll[1], ll[2], o.gc[3] + d[3]>>
        IN  /\ ret' = Xyz2CoordInv(o, value)
            /\ last' = Call("xyz2coord", "orig", TRUE, value, TRUE)
            /\ UNCHANGED <<lut, bufs, centres>>

InitQuery ==
    \E cc \in MapCounts, cs \in {<<2, 2, 2>>, <<4, 2, 2>>}, az \in {0, 1} :
        LET o == Stations(SetUpLUT(cc, cs, az, 0, 2, 6),
                          StationFile(MaxStations), "xyz")
            r == ComputeHomogeneous(o, EmptyHeap, {}, 2, 1)
        IN  Holds(r.o, r.heap)

NextQuery ==
    \/ Uncounted(DoInterpolate)
    \/ Uncounted(DoXyz2Coord)

SpecQuery == InitQuery /\ [][NextQuery]_vars

\* The linear interpolation at the doubled loc2 in a grid of cell_count cc:
\* every node within one cell of loc on every axis, weighted by the product
\* of 1 - |loc - node| over the axes, in eighths.
Hat(cc, loc2) ==
    { << j, (2 - Abs(loc2[1] - 2 * j[1])) * (2 - Abs(loc2[2] - 2 * j[2]))
              * (2 - Abs(loc2[3] - 2 * j[3])) >> :
        j \in { k \in Indices(cc) :
                  \A i \in Axes : Abs(loc2[i] - 2 * k[i]) < 2 } }

Inside(cc, loc2) == \A i \in Axes : 0 <= loc2[i] /\ loc2[i] <= 2 * (cc[i] - 1)

\* C8 as stated: interpolate returns, for every station, the marker when
\* loc is outside [0, cell_count - 1] on some axis, and when loc is inside
\* on all three axes the linear interpolation of the stored volume, not the
\* marker and not an error.
C8_InterpolateInBounds ==
    last.op = "interpolate" =>
        /\ last.ok
        /\ DOMAIN ret = 1..NumStations(lut["orig"])
        /\ \A st \in DOMAIN ret :
              IF Inside(lut["orig"].cell_count, last.arg)
              THEN ret[st] = Combination(Hat(lut["orig"].cell_count, last.arg))
              ELSE ret[st] = Marker

\* interpolate has returned the marker for a loc inside the range on all
\* three axes
C8_Witness ==
    /\ last.op = "interpolate" /\ last.ok
    /\ Inside(lut["orig"].cell_count, last.arg)
    /\ \E st \in DOMAIN ret : ret[st] = Marker

\* C9 as stated: on every axis xyz2coord(value, inverse=True) returns a
\* planar coordinate beyond the maximum face of the bounding box as that
\* face minus half a cell size, one beyond the minimum face as that face
\* plus half a cell size, one inside the box unchanged, and the result lies
\* inside the bounding box, for every cell_count.
C9_ClampInsideBox ==
    (last.op = "xyz2coord" /\ last.flag) =>
        LET o == Resolve("orig")
            p == Planar(o, last.arg)
        IN  \A i \in Axes :
              /\ p[i] > CornerMax(o, i) =>
                     ret[i] = CornerMax(o, i) - HalfSize(o)[i]
              /\ p[i] < CornerMin(o, i) =>
                     ret[i] = CornerMin(o, i) + HalfSize(o)[i]
              /\ (CornerMin(o, i) <= p[i] /\ p[i] <= CornerMax(o, i)) =>
                     ret[i] = p[i]
              /\ CornerMin(o, i) <= ret[i] /\ ret[i] <= CornerMax(o, i)

\* on an axis with a single cell a coordinate beyond the box has been
\* returned outside the box
C9_Witness ==
    /\ last.op = "xyz2coord" /\ last.flag
    /\ lut["orig"].cell_count[1] = 1
    /\ ret[1] < CornerMin(Resolve("orig"), 1)

(***************************************************************************)
(* The round trips of local2global and xyz2loc.  The angles are quarter    *)
(* turns and, for a grid that dips, the points lie on the vertical through *)
(* grid_centre: there the exact result and the floating-point result of    *)
(* _cart2sph_np and _sph2cart_np agree to rounding.                        *)
(***************************************************************************)
Azimuths == 0..3
Dips == {-1, 0, 1}
VerticalOffsets == { <<0, 0, t>> : t \in {-4, -2, 0, 2, 4} }
AllOffsets ==
    { <<a, b, c>> : a \in {-2, 0, 2}, b \in {-2, 0, 2}, c \in {-2, 0, 2} }
RoundTripPoints(o) ==
    { VAdd(o.gc, d) : d \in IF o.dip = 0 THEN AllOffsets ELSE VerticalOffsets }

\* q = local2global(p, inverse=False); local2global(q, inverse=True)
DoLocal2GlobalRoundTrip ==
    \E p \in RoundTripPoints(Resolve("orig")) :
        LET o == Resolve("orig")
            q == Local2Global(o, p, FALSE)
        IN  /\ ret' = <<q, Local2Global(o, q, TRUE)>>
            /\ last' = Call("local2global", "orig", TRUE, p, FALSE)
            /\ UNCHANGED <<lut, bufs, centres>>

\* loc = xyz2loc(p, inverse=False); xyz2loc(loc, inverse=True)
DoXyz2LocRoundTrip ==
    \E p \in RoundTripPoints(Resolve("orig")) :
        LET o == Resolve("orig")
            loc2 == Xyz2LocFwd(o, p)
        IN  /\ ret' = <<loc2, Xyz2LocInv(o, loc2)>>
            /\ last' = Call("xyz2loc", "orig", TRUE, p, FALSE)
            /\ UNCHANGED <<lut, bufs, centres>>

InitRound ==
    \E az \in Azimuths, dip \in Dips :
        Holds(SetUpLUT(<<2, 2, 2>>, <<2, 2, 2>>, az, dip, 2, 6), EmptyHeap)

NextRound ==
    \/ Uncounted(DoLocal2GlobalRoundTrip)
    \/ Uncounted(DoXyz2LocRoundTrip)

SpecRound == InitRound /\ [][NextRound]_vars

\* C10 as stated: for every point p and every geometry, the azimuth and
\* the dip included, xyz2loc(xyz2loc(p, inverse=False), inverse=True) = p
\* and local2global(local2global(p, inverse=False), inverse=True) = p.
C10_RoundTrips ==
    last.op \in {"local2global", "xyz2loc"} => ret[2] = last.arg

\* in a grid that dips by a quarter turn the round trip of xyz2loc has
\* returned another point
C10_Witness ==
    /\ last.op = "xyz2loc"
    /\ lut["orig"].dip = 1 /\ lut["orig"].azimuth = 0
    /\ last.arg = VAdd(centres[lut["orig"].gc], <<0, 0, -2>>)
    /\ ret[2] = VAdd(centres[lut["orig"].gc], <<0, 0, 2>>)

(***************************************************************************)
(* index2loc.  An integer array is [shape, data]: data holds the elements  *)
(* in C order, shape is <<>> for a scalar, <<n>> for n elements and        *)
(* <<r, c>> for r rows of c elements.                                      *)
(***************************************************************************)
SortOrders == {"C", "F"}
Scalar(i) == [shape |-> <<>>, data |-> <<i>>]
Vector(seq) == [shape |-> <<Len(seq)>>, data |-> seq]
Raised == [ok |-> FALSE, shape |-> <<>>, data |-> <<>>]
Returned(a) == [ok |-> TRUE, shape |-> a.shape, data |-> a.data]
NumCells(cc) == cc[1] * cc[2] * cc[3]

\* np.unravel_index(i, cell_count, order) for one index within the grid
UnravelIndex(i, cc, order) ==
    IF order = "C"
    THEN << i \div (cc[2] * cc[3]), (i \div cc[3]) % cc[2], i % cc[3] >>
    ELSE << i % cc[1], (i \div cc[1]) % cc[2], i \div (cc[1] * cc[2]) >>

\* np.ravel_multi_index(c, cell_count, mode='clip', order) for one index
\* triple: each index is first brought within its axis
RavelMultiIndex(c, cc, order) ==
    LET k == [i \in Axes |-> Min2(Max2(c[i], 0), cc[i] - 1)]
    IN  IF order = "C" THEN (k[1] * cc[2] + k[2]) * cc[3] + k[3]
        ELSE k[1] + cc[1] * (k[2] + cc[2] * k[3])

\* Grid3D.index2loc(value, inverse=False), value a scalar or a 1-D array of
\* linear indices: np.unravel_index raises for an index outside the grid;
\* np.vstack stacks the three index arrays as rows and the transpose has one
\* row of three indices per linear index
Index2LocFwd(o, value) ==
    LET n == Len(value.data)
    IN  IF \E k \in 1..n :
               value.data[k] < 0 \/ value.data[k] >= NumCells(o.cell_count)
        THEN Raised
        ELSE Returned(
               [ shape |-> <<n, 3>>,
                 data  |-> [m \in 1..(3 * n) |->
                     UnravelIndex(value.data[((m - 1) \div 3) + 1],
                                  o.cell_count,
                                  o.sort_order)[((m - 1) % 3) + 1]] ])

\* Grid3D.index2loc(value, inverse=True): np.ravel_multi_index takes value as
\* a sequence of three index arrays, one per axis, and raises unless the
\* sequence has length 3; what a 2-D array gives as a sequence is its rows
Index2LocInv(o, value) ==
    IF value.shape = <<>> \/ value.shape[1] # 3 THEN Raised
    ELSE IF Len(value.shape) = 1
    THEN Returned(Scalar(RavelMultiIndex(value.data, o.cell_count,
                                         o.sort_order)))
    ELSE LET c == value.shape[2]
         IN  Returned(Vector(
                 [k \in 1..c |->
                     RavelMultiIndex(<< value.data[k], value.data[c + k],
                                        value.data[2 * c + k] >>,
                                     o.cell_count, o.sort_order)]))

\* The second call of a round trip, made with what the first call returned.
Then(first, Second(_)) == IF first.ok THEN Second(first) ELSE Raised

\* index2loc(index2loc(i), inverse=True) for a scalar i
DoIndexRoundTrip ==
    \E i \in 0..(NumCells(lut["orig"].cell_count) - 1) :
        LET o == Resolve("orig")
            F(a) == Index2LocInv(o, a)
            loc == Index2LocFwd(o, Scalar(i))
            back == Then(loc, F)
        IN  /\ ret' = <<loc, back>>
            /\ last' = Call("index2loc", "orig", back.ok, <<i>>, FALSE)
            /\ UNCHANGED <<lut, bufs, centres>>

\* index2loc(index2loc([i, j, i]), inverse=True) for an array of three
DoIndexArrayRoundTrip ==
    \E i, j \in 0..(NumCells(lut["orig"].cell_count) - 1) :
        LET o == Resolve("orig")
            F(a) == Index2LocInv(o, a)
            loc == Index2LocFwd(o, Vector(<<i, j, i>>))
            back == Then(loc, F)
        IN  /\ ret' = <<loc, back>>
            /\ last' = Call("index2loc[]", "orig", back.ok, <<i, j, i>>, FALSE)
            /\ UNCHANGED <<lut, bufs, centres>>

\* index2loc(index2loc([a, b, c], inverse=True)) for an index triple
DoLocRoundTrip ==
    \E t \in Indices(lut["orig"].cell_count) :
        LET o == Resolve("orig")
            F(a) == Index2LocFwd(o, a)
            idx == Index2LocInv(o, Vector(t))
            back == Then(idx, F)
        IN  /\ ret' = <<idx, back>>
            /\ last' = Call("index2loc", "orig", back.ok, t, TRUE)
            /\ UNCHANGED <<lut, bufs, centres>>

IndexCounts == { <<a, b, c>> : a \in 1..MaxCells, b \in 1..(MaxCells + 1),
                               c \in 1..MaxCells }

\* Grid3D(cell_count, cell_size, azimuth, dip, sort_order)
InitIndex ==
    \E cc \in IndexCounts, order \in SortOrders :
        Holds([NewLUT(cc, <<2, 2, 2>>, 0, 0) EXCEPT !.sort_order = order],
              EmptyHeap)

NextIndex ==
    \/ Uncounted(DoIndexRoundTrip)
    \/ Uncounted(DoIndexArrayRoundTrip)
    \/ Uncounted(DoLocRoundTrip)

SpecIndex == InitIndex /\ [][NextIndex]_vars

\* C11 as stated: for every cell_count and both orders, unflattening a
\* linear index i of the grid with index2loc and flattening the result with
\* index2loc(inverse=True) returns i, and flattening an index triple of the
\* grid and unflattening the result returns the triple.
C11_IndexRoundTrips ==
    last.op \in {"index2loc", "index2loc[]"} =>
        /\ last.ok
        /\ ret[2].data = last.arg

\* the unflattened form of a linear index of a grid of more than one cell
\* has been refused by index2loc(inverse=True)
C11_Witness ==
    /\ last.op = "index2loc" /\ ~last.flag /\ ~last.ok
    /\ last.arg = <<1>>
    /\ ret[1].ok /\ ret[1].shape = <<1, 3>>
    /\ ~ret[2].ok

(***************************************************************************)
(* The travel times of the homogeneous model.                              *)
(***************************************************************************)
\* The rows of the station files: the first, read as an offset from
\* grid_centre, lies at the centre of a cell of every grid of InitHomogeneous
HomRows == << <<0, 0, -1>>, <<1, -1, -3>>, <<4, 2, 0>> >>
HomStationFiles ==
    { [i \in 1..Len(pick) |-> HomRows[pick[i]] \o <<StationNames[i]>>] :
        pick \in { p \in UNION { [1..n -> 1..Len(HomRows)] :
                                   n \in 1..MaxStations } :
                     \A i, j \in DOMAIN p : i # j => p[i] # p[j] } }
HomVelocities == {<<5, 3>>}

\* compute_homogeneous_vmodel(vp, vs)
DoComputeHomogeneousWith(L, velocities) ==
    \E v \in velocities :
        LET r == ComputeHomogeneous(Resolve(L), bufs, KeepBufs(L), v[1], v[2])
        IN  /\ Commit(L, r.o, r.heap)
            /\ last' = Call("compute_homogeneous_vmodel", L, r.ok, v, FALSE)
            /\ ret' = <<>>

InitHomogeneous ==
    \E cc \in MapCounts, az \in {0, 1} :
        Holds(SetUpLUT(cc, <<2, 2, 2>>, az, 0, 2, 6), EmptyHeap)

NextHomogeneous ==
    \/ Uncounted(DoStations("orig", HomStationFiles,
                            {"offset", "lon_lat_elev"}))
    \/ Uncounted(DoComputeHomogeneousWith("orig", HomVelocities))

SpecHomogeneous == InitHomogeneous /\ [][NextHomogeneous]_vars

\* The planar position of the station with the record rec, from that record
\* alone, and the planar position of the centre of the cell c.
StationPosition(o, rec) ==
    LET xy == Transform(Val(o.coord_proj), Val(o.grid_proj),
                        <<rec.Longitude, rec.Latitude>>)
    IN  <<xy[1], xy[2], rec.Elevation>>
CellCentre(o, c) ==
    LET d == [i \in Axes |-> HalfSize(o)[i] * (2 * c[i] - (o.cell_count[i] - 1))]
        h == Rot(<<d[1], d[2]>>, o.azimuth)
    IN  <<o.gc[1] + h[1], o.gc[2] + h[2], o.gc[3] + d[3]>>

\* C12: right after compute_homogeneous_vmodel(vp, vs) has returned, TIME_P
\* and TIME_S have one volume per station; at every cell c and station s
\* TIME_P is the Euclidean distance between the centre of c and s divided by
\* vp and TIME_S that distance divided by vs, the position of s taken from
\* the record of s alone; where the centre of c is the position of s both
\* are 0.
C12_HomogeneousTimes ==
    (last.op = "compute_homogeneous_vmodel" /\ last.ok) =>
        LET o   == Resolve("orig")
            stn == Val(o.station_data)
        IN  /\ DOMAIN o.maps = MapNames
            /\ \A n \in MapNames :
                  /\ o.maps[n].shape = o.cell_count \o <<Len(stn)>>
                  /\ \A c \in Indices(o.cell_count), s \in 1..Len(stn) :
                        LET t  == ArrGet(bufs, o.maps[n], c \o <<s - 1>>)
                            d2 == Dist2(CellCentre(o, c),
                                        StationPosition(o, stn[s]))
                        IN  /\ t = << d2, IF n = "TIME_P" THEN last.arg[1]
                                          ELSE last.arg[2] >>
                            /\ CellCentre(o, c) = StationPosition(o, stn[s])
                                   => t[1] = 0

\* the times have been computed with vp = 5 and vs = 3 for two stations, the
\* first at the centre of a cell, where its times are 0 and those of the
\* second are not
C12_Witness ==
    /\ last.op = "compute_homogeneous_vmodel" /\ last.ok
    /\ last.arg = <<5, 3>>
    /\ NumStations(lut["orig"]) = 2
    /\ \E c \in Indices(lut["orig"].cell_count) :
          /\ ArrGet(bufs, lut["orig"].maps["TIME_P"], c \o <<0>>) = <<0, 5>>
          /\ ArrGet(bufs, lut["orig"].maps["TIME_S"], c \o <<0>>) = <<0, 3>>
          /\ ArrGet(bufs, lut["orig"].maps["TIME_P"], c \o <<1>>)[1] > 0

(***************************************************************************)
(* _utm_zone.  A longitude is held here in half degrees, so that           *)
(* longitudes between the zone boundaries are among those tried.           *)
(***************************************************************************)
\* math.fmod(a / d, m) times d, for whole a, d > 0 and m > 0: the remainder
\* has the sign of a
FmodTimes(a, d, m) ==
    IF a >= 0 THEN a % (d * m) ELSE -((-a) % (d * m))
\* int(a / d) for d > 0: the fraction is cut off towards zero
IntOf(a, d) == IF a >= 0 THEN a \div d ELSE -((-a) \div d)

\* int(1 + (longitude + 180.0) / 6.0), without the fmod
UtmZoneNoWrap(lon2) == IntOf(12 + (lon2 + 360), 12)

\* _utm_zone(longitude): int(1 + math.fmod((longitude + 180.0) / 6.0, 60)),
\* lon2 the longitude in half degrees
UtmZone(lon2) == IntOf(12 + FmodTimes(lon2 + 360, 12, 60), 12)

\* _utm_zone(longitude)
DoUtmZone ==
    \E lon2 \in (-2 * MaxLongitude)..(2 * MaxLongitude) :
        /\ ret' = <<UtmZone(lon2)>>
        /\ last' = Call("_utm_zone", "orig", TRUE, <<lon2>>, FALSE)
        /\ UNCHANGED <<lut, bufs, centres>>

InitZone == Holds(NewLUT(<<2, 2, 2>>, <<2, 2, 2>>, 0, 0), EmptyHeap)
NextZone == Uncounted(DoUtmZone)
SpecZone == InitZone /\ [][NextZone]_vars

\* C13: for every longitude from -180 to 180, _utm_zone(longitude) is
\* 1 + (floor((longitude + 180) / 6) mod 60) and lies in 1..60; the zones
\* of -180, -174, 0, 174 and 180 are 1, 2, 31, 60 and 1, zone(-179) = 1 and
\* zone(-1) = 30.
C13_UtmZoneFormula ==
    (last.op = "_utm_zone" /\ -360 <= last.arg[1] /\ last.arg[1] <= 360) =>
        LET lon2 == last.arg[1]
            zone == ret[1]
        IN  /\ zone = 1 + (FloorDiv(lon2 + 360, 12) % 60)
            /\ zone \in 1..60
            /\ lon2 = -360 => zone = 1
            /\ lon2 = -348 => zone = 2
            /\ lon2 = 0 => zone = 31
            /\ lon2 = 348 => zone = 60
            /\ lon2 = 360 => zone = 1
            /\ lon2 = -358 => zone = 1
            /\ lon2 = -2 => zone = 30

\* the zone of the longitude 180 has been asked for and is 1
C13_Witness ==
    /\ last.op = "_utm_zone" /\ last.arg = <<360>>
    /\ ret = <<1>>

(***************************************************************************)
(* The station filter of fetch_map and interpolate.  A filter is None or   *)
(* Some(names), names a list of station names.                             *)
(***************************************************************************)
InList(x, list) == \E k \in DOMAIN list : list[k] = x

\* LUT._select_station(station_data): [ok, value].  Without a registry the
\* argument is returned.  With one, flag has len(self.station_data)
\* elements, the number of keys of the registry (Longitude, Latitude,
\* Elevation, Name), so that marking a station past the fourth raises; the
\* loop ends the function, and what a function without a return statement
\* returns is None.
SelectStation(o, names) ==
    IF o.station_data = None THEN [ok |-> TRUE, value |-> Some(names)]
    ELSE LET stn  == Val(o.station_data)
             nstn == 4
             flag == [i \in 1..nstn |-> InList(stn[i].Name, names)]
         IN  IF \E i \in DOMAIN stn : InList(stn[i].Name, names) /\ i > nstn
             THEN [ok |-> FALSE, value |-> None]
             ELSE [ok |-> TRUE, value |-> None]

\* The volume of the station at the 0-based place s of the station axis.
Volume(heap, a, s) ==
    [c \in Indices(<<a.shape[1], a.shape[2], a.shape[3]>>) |->
        ArrGet(heap, a, c \o <<s>>)]

NoMap == [ok |-> FALSE, shape |-> <<>>, volumes |-> <<>>]

\* LUT.fetch_map(map_, station): [ok, shape, volumes], volumes the volumes
\* along the station axis of the array returned.  Indexing [..., None] adds
\* an axis of length 1 after the station axis and selects nothing; a list of
\* names is not an index.
FetchMap(o, heap, name, station) ==
    IF name \notin DOMAIN o.maps THEN NoMap
    ELSE LET a   == o.maps[name]
             all == [k \in 1..a.shape[4] |-> Volume(heap, a, k - 1)]
         IN  IF station = None
             THEN [ok |-> TRUE, shape |-> a.shape, volumes |-> all]
             ELSE LET sel == SelectStation(o, Val(station))
                  IN  IF ~sel.ok \/ sel.value # None THEN NoMap
                      ELSE [ ok |-> TRUE, shape |-> a.shape \o <<1>>,
                             volumes |-> all ]

\* LUT.interpolate(map_, loc, station): the interpolator is built over what
\* fetch_map returns: [ok, shape, value], one value for each volume
InterpolateStations(o, heap, name, loc2, station, build) ==
    LET m == FetchMap(o, heap, name, station)
        r == Interpolate(o, heap, name, loc2, build)
    IN  IF ~m.ok \/ ~r.ok THEN [ok |-> FALSE, shape |-> <<>>, value |-> <<>>]
        ELSE [ ok |-> TRUE, shape |-> SubSeq(m.shape, 4, Len(m.shape)),
               value |-> r.value ]

StationFilters ==
    {None} \cup { Some(names) : names \in
        { <<>>, <<"ST1">>, <<"ST2">>, <<"ST1", "ST2">>, <<"ST2", "ST1">>,
          <<"ST3">>, <<"ST1", "ST3">> } }

DoFetchMap ==
    \E name \in MapNames, station \in StationFilters :
        LET r == FetchMap(Resolve("orig"), bufs, name, station)
        IN  /\ ret' = r
            /\ last' = Call("fetch_map", "orig", r.ok, station, FALSE)
            /\ UNCHANGED <<lut, bufs, centres>>

DoInterpolateStations ==
    \E name \in MapNames, station \in StationFilters, build \in Builds :
        LET r == InterpolateStations(Resolve("orig"), bufs, name, Zeros,
                                     station, build)
        IN  /\ ret' = r
            /\ last' = Call("interpolate", "orig", r.ok, station, FALSE)
            /\ UNCHANGED <<lut, bufs, centres>>

InitFetch ==
    \E cc \in MapCounts, n \in 1..MaxStations :
        LET o == Stations(SetUpLUT(cc, <<2, 2, 2>>, 0, 0, 2, 6),
                          StationFile(n), "xyz")
            r == ComputeHomogeneous(o, EmptyHeap, {}, 2, 1)
        IN  Holds(r.o, r.heap)

NextFetch ==
    \/ Uncounted(DoFetchMap)
    \/ Uncounted(DoInterpolateStations)

SpecFetch == InitFetch /\ [][NextFetch]_vars

\* The places in the registry (from 1) of the stations a filter selects, in
\* registry order; all of them without a filter.
Selected(o, station) ==
    LET stn == Val(o.station_data)
        S == { i \in DOMAIN stn :
                 station = None \/ InList(stn[i].Name, Val(station)) }
    IN  IF S = {} THEN <<>>
        ELSE CHOOSE seq \in [1..Cardinality(S) -> S] :
                 \A i, j \in DOMAIN seq : i < j => seq[i] < seq[j]

\* C14 as stated: fetch_map and interpolate called with a station filter
\* return, along the station axis, which stays the last axis, exactly the
\* volumes (for interpolate, the values) of the named stations in registry
\* order, and with no filter those of all N stations.
C14_StationFilter ==
    LET o    == Resolve("orig")
        want == Selected(o, last.arg)
    IN  /\ last.op = "fetch_map" =>
              /\ last.ok
              /\ ret.shape = o.cell_count \o <<Len(want)>>
              /\ ret.volumes = [k \in 1..Len(want) |->
                    Volume(bufs, o.maps["TIME_P"], want[k] - 1)]
                 \/ ret.volumes = [k \in 1..Len(want) |->
                    Volume(bufs, o.maps["TIME_S"], want[k] - 1)]
        /\ last.op = "interpolate" =>
              /\ last.ok
              /\ ret.shape = <<Len(want)>>
              /\ Len(ret.value) = Len(want)

\* fetch_map has been asked for the first of two stations and has returned
\* the volumes of both, under an added axis
C14_Witness ==
    /\ last.op = "fetch_map" /\ last.ok
    /\ last.arg = Some(<<"ST1">>)
    /\ NumStations(lut["orig"]) = 2
    /\ Len(ret.volumes) = 2
    /\ Len(ret.shape) = 5

(***************************************************************************)
(* _proj and Grid3D.projections.  A projection handle is modelled by its   *)
(* kind (the zone or the origin it was built for is not kept).             *)
(***************************************************************************)
NAD27 == [name |-> "NAD27", off |-> <<1, 1>>]
LCC   == [name |-> "LCC",   off |-> <<6, 2>>]
ProjKinds == {"WGS84", "NAD27", "UTM", "LCC", "TM"}
\* a kind _proj does not know
OtherKind == "MERC"

NoProj == [ok |-> FALSE, proj |-> None]

\* _proj(projection=kind, ...): [ok, proj].  params are the keyword
\* arguments the kind reads, None for one that was not given or is None:
\* <<longitude>> for UTM, <<lon0, lat0, parallel_1, parallel_2>> for LCC,
\* <<lon, lat>> for TM.  _utm_zone(None) and float(None) raise TypeError; for
\* a kind that matches no test the name proj is unbound at
\* pyproj.Proj(proj), which raises UnboundLocalError.
Proj(kind, params) ==
    CASE kind = "WGS84" -> [ok |-> TRUE, proj |-> Some(WGS84)]
      [] kind = "NAD27" -> [ok |-> TRUE, proj |-> Some(NAD27)]
      [] kind = "UTM" ->
            IF Len(params) < 1 \/ params[1] = None THEN NoProj
            ELSE [ok |-> TRUE, proj |-> Some(UTM)]
      [] kind = "LCC" ->
            IF Len(params) < 4 \/ \E k \in 1..4 : params[k] = None
            THEN NoProj
            ELSE [ok |-> TRUE, proj |-> Some(LCC)]
      [] kind = "TM" ->
            IF Len(params) < 2 \/ \E k \in 1..2 : params[k] = None
            THEN NoProj
            ELSE [ok |-> TRUE, proj |-> Some(TM)]
      [] OTHER -> NoProj

\* Grid3D.projections(grid_proj, coord_proj=None): [ok, o], o the object as
\* the call leaves it, also where it raises.  coord_proj is None or
\* Some(kind); a kind is a non-empty string and so true.
Projections(o, grid_proj, coord_proj) ==
    LET c  == IF IsSet(coord_proj) /\ o.coord_proj = None
              THEN Proj(Val(coord_proj), <<>>)
              ELSE IF o.coord_proj = None THEN Proj("WGS84", <<>>)
              ELSE [ok |-> TRUE, proj |-> None]
        o1 == IF c.ok /\ IsSet(c.proj) THEN CoordProjSetter(o, c.proj) ELSE o
        g  == CASE grid_proj = "UTM" -> Proj("UTM", <<o1.longitude>>)
                [] grid_proj = "LCC" ->
                      Proj("LCC", << o1.longitude, o1.latitude,
                                     Some(o1.lcc_standard_parallels[1]),
                                     Some(o1.lcc_standard_parallels[2]) >>)
                [] grid_proj = "TM" ->
                      Proj("TM", <<o1.longitude, o1.latitude>>)
                [] OTHER -> NoProj
    IN  IF ~c.ok THEN [ok |-> FALSE, o |-> o]
        ELSE IF ~g.ok THEN [ok |-> FALSE, o |-> o1]
        ELSE [ok |-> TRUE, o |-> GridProjSetter(o1, g.proj)]

\* _proj(projection=kind, ...) with every parameter the kind reads given,
\* or with none of them
DoProj ==
    \E kind \in ProjKinds \cup {OtherKind}, given \in BOOLEAN :
        LET p == IF given THEN <<Some(2), Some(6), Some(0), Some(0)>>
                 ELSE <<None, None, None, None>>
            r == Proj(kind, p)
        IN  /\ ret' = r.proj
            /\ last' = Call("_proj", "orig", r.ok, <<kind>>, given)
            /\ UNCHANGED <<lut, bufs, centres>>

\* lut.projections(grid_proj, coord_proj)
DoProjections ==
    \E grid_proj \in ProjKinds \cup {OtherKind},
       coord_proj \in {None} \cup { Some(k) : k \in ProjKinds \cup {OtherKind} } :
        LET r == Projections(Resolve("orig"), grid_proj, coord_proj)
        IN  /\ InRange(r.o)
            /\ Commit("orig", r.o, bufs)
            /\ last' = Call("projections", "orig", r.ok,
                            <<grid_proj, coord_proj>>, FALSE)
            /\ ret' = <<>>

InitProj == Holds(NewLUT(<<2, 2, 2>>, <<2, 2, 2>>, 0, 0), EmptyHeap)

NextProj ==
    \/ Uncounted(DoLonlatCentre)
    \/ Uncounted(DoProj)
    \/ Uncounted(DoProjections)

SpecProj == InitProj /\ [][NextProj]_vars

\* C15 as stated: _proj returns a handle only for a kind among WGS84, NAD27,
\* UTM, LCC and TM whose parameters were given, and raises otherwise;
\* projections raises when the grid kind or a supplied coordinate kind is
\* not a recognized one; grid_proj and coord_proj are only ever handles of
\* recognized kinds; and after projections has returned, coord_proj is of
\* the kind that was supplied.
C15_UnknownKindFails ==
    LET o == Resolve("orig")
    IN  /\ last.op = "_proj" =>
              /\ last.ok = (last.arg[1] \in ProjKinds
                            /\ (last.flag \/ last.arg[1] \in {"WGS84", "NAD27"}))
              /\ last.ok => Val(ret).name = last.arg[1]
              /\ ~last.ok => ret = None
        /\ last.op = "projections" =>
              /\ last.arg[1] \notin ProjKinds => ~last.ok
              /\ (IsSet(last.arg[2]) /\ Val(last.arg[2]) \notin ProjKinds)
                     => ~last.ok
              /\ (last.ok /\ IsSet(last.arg[2]))
                     => Val(o.coord_proj).name = Val(last.arg[2])
              /\ last.ok => Val(o.grid_proj).name = last.arg[1]
        /\ IsSet(o.grid_proj) => Val(o.grid_proj).name \in ProjKinds
        /\ IsSet(o.coord_proj) => Val(o.coord_proj).name \in ProjKinds

\* projections has returned for a coordinate kind _proj does not know, on a
\* grid whose coord_proj an earlier call had set
C15_Witness ==
    /\ last.op = "projections" /\ last.ok
    /\ last.arg = <<"UTM", Some(OtherKind)>>
    /\ lut["orig"].coord_proj = Some(WGS84)
    /\ lut["orig"].grid_proj = Some(UTM)

(***************************************************************************)
(* NonLinLoc: the external grid files.  A file pair is a record            *)
(*   ntok    : the number of tokens of the first line of the .hdr file,    *)
(*   n, org, siz, type : what its first ten tokens denote,                 *)
(*   trans   : the token after TRANSFORM of the third line,                *)
(*   lon, lat, rot, ellipsoid, std1, std2 : the parameters the third line  *)
(*             gives at the places the kind trans reads,                   *)
(*   samples : the number of 4-byte floats of the .buf file.               *)
(* The k-th float of a .buf file is taken to be k.                         *)
(***************************************************************************)
TransKinds == {"NONE", "SIMPLE", "LAMBERT", "TRANS_MERC"}
\* a transform token nlloc_load_file does not know
OtherTrans == "GLOBAL"

\* The lines 636-650 of nlloc_load_file: four tests in a row, nothing for a
\* token that matches none
LoadTransform(o, f) ==
    CASE f.trans = "NONE" -> [o EXCEPT !.NLLoc_proj = "NONE"]
      [] f.trans = "SIMPLE" ->
            [o EXCEPT !.NLLoc_proj = "SIMPLE",
                      !.NLLoc_MapOrg = <<f.lon, f.lat, f.rot, "SIMPLE", 0, 0>>]
      [] f.trans = "LAMBERT" ->
            [o EXCEPT !.NLLoc_proj = "LAMBERT",
                      !.NLLoc_MapOrg = << f.lon, f.lat, f.rot, f.ellipsoid,
                                          f.std1, f.std2 >>]
      [] f.trans = "TRANS_MERC" ->
            [o EXCEPT !.NLLoc_proj = "TRANS_MERC",
                      !.NLLoc_MapOrg = << f.lon, f.lat, f.rot, f.ellipsoid,
                                          0, 0 >>]
      [] OTHER -> o

\* NonLinLoc.nlloc_load_file(filename): [ok, o], o the object as the call
\* leaves it, also where it raises.  The four assignments of the first line
\* are made one after the other, each raising IndexError when the line runs
\* out of tokens; fid.read(N * 4) returns at most N * 4 bytes, and
\* struct.unpack raises unless it is given exactly N * 4 (or its format has
\* a negative count; with two negative counts reshape raises).
NllocLoadFile(o, f) ==
    LET o1 == [o  EXCEPT !.NLLoc_n = f.n]
        o2 == [o1 EXCEPT !.NLLoc_org = f.org]
        o3 == [o2 EXCEPT !.NLLoc_siz = f.siz]
        o4 == [o3 EXCEPT !.NLLoc_type = f.type]
        o5 == LoadTransform(o4, f)
        N  == NumCells(f.n)
    IN  IF f.ntok < 3 THEN [ok |-> FALSE, o |-> o]
        ELSE IF f.ntok < 6 THEN [ok |-> FALSE, o |-> o1]
        ELSE IF f.ntok < 9 THEN [ok |-> FALSE, o |-> o2]
        ELSE IF f.ntok < 10 THEN [ok |-> FALSE, o |-> o3]
        ELSE IF (\E i \in Axes : f.n[i] < 0) \/ f.samples < N
        THEN [ok |-> FALSE, o |-> o5]
        ELSE [ ok |-> TRUE,
               o  |-> [o5 EXCEPT !.NLLoc_data =
                         Some([ shape |-> f.n,
                                data  |-> [k \in 1..N |-> k] ])] ]

\* Grid3D._nlloc_grid_proj: the handle, or None where the function prints
\* its message or matches nothing and ends without a return
NllocGridProj(o) ==
    CASE o.NLLoc_proj = "LAMBERT" ->
            Proj("LCC", << Some(o.NLLoc_MapOrg[1]), Some(o.NLLoc_MapOrg[2]),
                           Some(o.NLLoc_MapOrg[5]), Some(o.NLLoc_MapOrg[6]) >>).proj
      [] o.NLLoc_proj = "TRANS_MERC" ->
            Proj("TM", << Some(o.NLLoc_MapOrg[1]),
                          Some(o.NLLoc_MapOrg[2]) >>).proj
      [] OTHER -> None

\* Grid3D.grid_proj (getter): [ok, proj]; without a projection it warns and
\* builds the UTM projection of the longitude
GridProjGetter(o) ==
    IF o.grid_proj = None THEN Proj("UTM", <<o.longitude>>)
    ELSE [ok |-> TRUE, proj |-> o.grid_proj]

\* Grid3D._update_grid_centre, reading grid_proj through its getter
UpdateGridCentreThroughGetter(o) ==
    [ UpdateGridCentre([o EXCEPT !.grid_proj = GridProjGetter(o).proj])
        EXCEPT !.grid_proj = o.grid_proj ]

\* Grid3D.nlloc_grid_centre(origin_lon, origin_lat): [ok, o]
NllocGridCentre(o, origin) ==
    LET o1 == CoordProjSetter(o, Some(WGS84))
        p  == NllocGridProj(o1)
        \* self.grid_proj = self._nlloc_grid_proj()
        o2 == IF o1.NLLoc_proj = "NONE" THEN o1
              ELSE IF IsSet(p) THEN GridProjSetter(o1, p)
              ELSE LET q == [o1 EXCEPT !.grid_proj = None]
                   IN  IF Truthy(q.longitude) /\ Truthy(q.latitude)
                       THEN UpdateGridCentreThroughGetter(q) ELSE q
        g  == GridProjGetter(o2)
        go == Transform(Val(o2.coord_proj), Val(g.proj), origin)
        xy == <<go[1] + Val(o2.centre)[1], go[2] + Val(o2.centre)[2]>>
        ll == Transform(Val(g.proj), Val(o2.coord_proj), xy)
        o3 == LatitudeSetter(LongitudeSetter(o2, Some(ll[1])), Some(ll[2]))
    IN  IF ~g.ok \/ o2.centre = None THEN [ok |-> FALSE, o |-> o2]
        ELSE [ok |-> TRUE, o |-> UpdateGridCentreThroughGetter(o3)]

\* NonLinLoc.nlloc_regrid(decimate): its first statement reads
\* self.NLLoc_size, an attribute that no statement of the module assigns
\* (nlloc_load_file assigns NLLoc_siz), and raises AttributeError
NllocRegrid(o, decimate) == [ok |-> FALSE, o |-> o]

NllocCounts == { <<1, 1, 2>>, <<2, 1, 1>> }
NllocFile(ntok, n, trans, samples) ==
    [ ntok |-> ntok, n |-> n, org |-> <<2, 4, 0>>, siz |-> <<2, 2, 2>>,
      type |-> "TIME", trans |-> trans, lon |-> 2, lat |-> 6, rot |-> 0,
      ellipsoid |-> "WGS-84", std1 |-> 0, std2 |-> 0, samples |-> samples ]
\* files with a whole first line and a buffer one float short, exact or one
\* float long, and files whose first line stops after the origin
NllocFiles ==
    { NllocFile(10, n, trans, NumCells(n) + d) :
        n \in NllocCounts, trans \in TransKinds \cup {OtherTrans},
        d \in {-1, 0, 1} }
    \cup { NllocFile(6, n, "NONE", NumCells(n)) : n \in NllocCounts }

\* lut.nlloc_load_file(filename)
DoNllocLoadFile ==
    \E f \in NllocFiles :
        LET r == NllocLoadFile(Resolve("orig"), f)
        IN  /\ Commit("orig", r.o, bufs)
            /\ last' = Call("nlloc_load_file", "orig", r.ok, f, FALSE)
            /\ ret' = <<>>

\* lut.nlloc_grid_centre(origin_lon, origin_lat)
DoNllocGridCentre ==
    \E origin \in {<<2, 6>>} :
        LET r == NllocGridCentre(Resolve("orig"), origin)
        IN  /\ InRange(r.o)
            /\ Commit("orig", r.o, bufs)
            /\ last' = Call("nlloc_grid_centre", "orig", r.ok, origin, FALSE)
            /\ ret' = <<>>

\* lut.nlloc_regrid(decimate)
DoNllocRegrid ==
    \E ds \in {Ones, <<2, 1, 1>>} :
        LET r == NllocRegrid(Resolve("orig"), ds)
        IN  /\ Commit("orig", r.o, bufs)
            /\ last' = Call("nlloc_regrid", "orig", r.ok, ds, FALSE)
            /\ ret' = <<>>

\* LUT() followed by lonlat_centre(2, 6)
InitNlloc ==
    Holds(LonlatCentre(NewLUT(<<2, 2, 2>>, <<2, 2, 2>>, 0, 0),
                       Some(2), Some(6)),
          EmptyHeap)

NextNlloc ==
    \/ Uncounted(DoNllocLoadFile)
    \/ Counted(DoNllocGridCentre)
    \/ Uncounted(DoNllocRegrid)
    \/ Uncounted(DoDecimateInPlace("orig", {Ones}))

SpecNlloc == InitNlloc /\ [][NextNlloc]_vars

\* C16 as stated: nlloc_load_file raises for a file whose transform token is
\* not NONE, LAMBERT or TRANS_MERC (the unsupported SIMPLE and any unknown
\* token); where it returns, NLLoc_proj is the token of the file and not the
\* value an earlier file left; and nlloc_grid_centre, which uses the
\* descriptor, does not return with grid_proj set to no projection.
C16_UnsupportedTransformFails ==
    LET o == Resolve("orig")
    IN  /\ last.op = "nlloc_load_file" =>
              /\ last.arg.trans \notin {"NONE", "LAMBERT", "TRANS_MERC"}
                     => ~last.ok
              /\ last.ok => o.NLLoc_proj = last.arg.trans
        /\ (last.op = "nlloc_grid_centre" /\ last.ok /\ o.NLLoc_proj # "NONE")
               => IsSet(o.grid_proj)

\* a file with a transform token the loader does not know has been loaded
\* without error, and NLLoc_proj is the LAMBERT an earlier file left
C16_Witness ==
    /\ last.op = "nlloc_load_file" /\ last.ok
    /\ last.arg.trans = OtherTrans
    /\ lut["orig"].NLLoc_proj = "LAMBERT"
    /\ IsSet(lut["orig"].NLLoc_data)

\* The attributes nlloc_load_file assigns.
NllocState(o) ==
    << o.NLLoc_n, o.NLLoc_org, o.NLLoc_siz, o.NLLoc_type, o.NLLoc_proj,
       o.NLLoc_MapOrg, o.NLLoc_data >>

\* C17 as stated: nlloc_load_file raises whenever the .buf file holds a
\* number of floats other than count_x * count_y * count_z, fewer or more,
\* and a call that raises leaves NLLoc_n, NLLoc_org, NLLoc_siz, NLLoc_type,
\* NLLoc_proj, NLLoc_MapOrg and NLLoc_data as they were before it.
C17_Step ==
    last'.op = "nlloc_load_file" =>
        /\ last'.arg.samples # NumCells(last'.arg.n) => ~last'.ok
        /\ ~last'.ok => NllocState(After("orig")) = NllocState(Resolve("orig"))

C17_LoadAllOrNothing == [][C17_Step]_vars

\* a load has raised and has left the counts of its header with the data of
\* the file loaded before
C17_Witness ==
    /\ last.op = "nlloc_load_file" /\ ~last.ok
    /\ last.arg.samples < NumCells(last.arg.n)
    /\ IsSet(lut["orig"].NLLoc_data)
    /\ lut["orig"].NLLoc_n = last.arg.n
    /\ Val(lut["orig"].NLLoc_data).shape # lut["orig"].NLLoc_n

\* C20 as stated: nlloc_regrid(decimate) called after a nlloc_load_file
\* that returned, for a file of the transform NONE, LAMBERT or TRANS_MERC,
\* returns; cell_count is then the count of the file decimated, cell_size
\* the size of the file (in metres) times the factors, the centre the
\* origin of the file plus size * (count - 1) / 2, and NLLoc_data has the
\* shape cell_count.
C20_Step ==
    ( /\ last'.op = "nlloc_regrid"
      /\ last.op = "nlloc_load_file" /\ last.ok
      /\ last.arg.trans \in {"NONE", "LAMBERT", "TRANS_MERC"} ) =>
        LET o  == After("orig")
            f  == last.arg
            ds == last'.arg
        IN  /\ last'.ok
            /\ o.cell_count = [i \in Axes |-> DecimateCount(f.n[i], ds[i])]
            /\ o.cell_size = [i \in Axes |-> 1000 * f.siz[i] * ds[i]]
            /\ IsSet(o.centre)
            /\ IsSet(o.NLLoc_data)
            /\ Val(o.NLLoc_data).shape = o.cell_count

C20_RegridCompletes == [][C20_Step]_vars

\* nlloc_regrid has raised right after a file of the transform NONE was
\* loaded, and the geometry of the LUT is the constructed one
C20_Witness ==
    /\ last.op = "nlloc_regrid" /\ ~last.ok
    /\ lut["orig"].NLLoc_proj = "NONE"
    /\ IsSet(lut["orig"].NLLoc_data)
    /\ Val(lut["orig"].NLLoc_data).shape = lut["orig"].NLLoc_n
    /\ lut["orig"].cell_count = <<2, 2, 2>>
    /\ lut["orig"].NLLoc_n = <<1, 1, 2>>


(***************************************************************************)
(* Grid3D.grid_origin.                                                     *)
(***************************************************************************)
\* grid_size = cell_count * cell_size;
\* local2global(grid_centre - grid_size / 2)
GridOrigin(g) ==
    Local2Global(g,
        [i \in Axes |-> g.gc[i] - g.cell_count[i] * HalfSize(g)[i]],
        FALSE)

\* lut.grid_origin
DoGridOrigin ==
    /\ ret' = GridOrigin(Resolve("orig"))
    /\ last' = Call("grid_origin", "orig", TRUE, Zeros, FALSE)
    /\ UNCHANGED <<lut, bufs, centres>>

InitOrigin ==
    \E cc \in MapCounts, cs \in {<<2, 2, 2>>, <<4, 2, 2>>}, az \in Azimuths :
        Holds(SetUpLUT(cc, cs, az, 0, 2, 6), EmptyHeap)

NextOrigin ==
    \/ Uncounted(DoSetGridCentre)
    \/ Uncounted(DoGridOrigin)

SpecOrigin == InitOrigin /\ [][NextOrigin]_vars

\* C18 as stated: for every cell_count, cell_size and grid_centre,
\* grid_origin is the position of the cell of index (0, 0, 0), that is
\* xyz2loc([0, 0, 0], inverse=True).
C18_OriginIsFirstCell ==
    last.op = "grid_origin" => ret = Xyz2LocInv(Resolve("orig"), Zeros)

\* grid_origin read on an unrotated grid of 2 x 1 x 1 cells of size 2: the
\* value is half a cell below the cell of index (0, 0, 0) on every axis.
C18_Witness ==
    LET o == Resolve("orig")
    IN  /\ last.op = "grid_origin"
        /\ o.azimuth = 0
        /\ o.cell_count = <<2, 1, 1>>
        /\ o.cell_size = <<2, 2, 2>>
        /\ Xyz2LocInv(o, Zeros) = VSub(o.gc, <<1, 0, 0>>)
        /\ ret = VSub(o.gc, <<2, 1, 1>>)


(***************************************************************************)
(* LUT.decimate: what a call changes together.                             *)
(***************************************************************************)
\* The object o, its maps in heap, has the geometry and the maps of the
\* object p, its maps in pheap.
SameGrid(o, heap, p, pheap) ==
    /\ o.cell_count = p.cell_count
    /\ o.cell_size = p.cell_size
    /\ o.gc = p.gc
    /\ MapValues(o, heap) = MapValues(p, pheap)

\* C19 as stated: for every ds, a zero or a negative component included,
\* a decimate either returns with cell_count, cell_size, grid_centre and
\* every map updated (cell_count = 1 + (n - 1) // ds, cell_size times ds,
\* grid_centre the centre of the retained samples, every map of the new
\* cell_count), or raises and leaves cell_count, cell_size, grid_centre and
\* every map of the object it was called on as they were.
C19_Step ==
    last'.op = "decimate" =>
        IF last'.ok
        THEN LET ds  == last'.arg
                 src == DecimateSource
                 dst == DecimateTarget
                 c1  == [i \in Axes |->
                            DecimateStart(src.cell_count[i], ds[i])]
                 mid == [i \in Axes |->
                            2 * c1[i] + ds[i] * (dst.cell_count[i] - 1)]
             IN  /\ \A i \in Axes :
                       /\ dst.cell_count[i]
                             = DecimateCount(src.cell_count[i], ds[i])
                       /\ dst.cell_size[i] = src.cell_size[i] * ds[i]
                 /\ dst.gc = Xyz2LocInv(src, mid)
                 /\ \A n \in DOMAIN dst.maps :
                       \A i \in Axes :
                           dst.maps[n].shape[i] = dst.cell_count[i]
        ELSE SameGrid(After(last'.lut), bufs', Resolve(last'.lut), bufs)

C19_DecimateIsAtomic == [][C19_Step]_vars

\* an in-place decimate of a grid of 2 x 2 x 2 cells with maps has raised
\* at the assignment of cell_size: cell_count is [1, 1, 1], cell_size and
\* the maps are those of the 2 x 2 x 2 grid
C19_Witness ==
    /\ last.op = "decimate" /\ ~last.ok /\ last.flag
    /\ lut["orig"].cell_count = <<1, 1, 1>>
    /\ lut["orig"].cell_size = <<2, 2, 2>>
    /\ DOMAIN lut["orig"].maps = MapNames
    /\ \A n \in MapNames :
           \A i \in Axes : lut["orig"].maps[n].shape[i] = 2
=============================================================================
